---------------------------- MODULE Spec2Model ----------------------------
(***************************************************************************)
(* Model of the autoshift redemption planning and execution engine:        *)
(*   - the SHiFT code normalizer   (redeem_logic.py, m_redeem.py)          *)
(*   - the candidate resolver      (redeem_logic.py)                       *)
(*   - the skip-logic classifier   (redeem_logic.py)                       *)
(*   - the bulk execution loop     (auto.py)                               *)
(*   - the manual redeem loop      (m_redeem.py)                           *)
(* Strings are sequences of one-character strings.  Python's None is the   *)
(* value None below.                                                       *)
(***************************************************************************)
EXTENDS Integers, Sequences, FiniteSets, TLC

VARIABLES
    \* ---- normalizer harness ----
    raw,            \* the raw code string handed to the normalizers
    normalized,     \* redeem_logic.normalize_shift_code(raw)
    normalizedM,    \* m_redeem._normalize_shift_code(raw)
    renormalized,   \* redeem_logic.normalize_shift_code(normalized)
    npc,            \* "input" before the normalizers ran, "done" after
    \* ---- classifier harness ----
    sCandidates,    \* the ordered candidates handed to _apply_skip_logic
    sRedeemed,      \* redeemed_map: (game, platform) -> success row
    sFailed,        \* failed_map: (game, platform) -> failure row
    sBypass,        \* bypass_fail
    sNow,           \* the classification time
    sAttempts,      \* the attempts list returned
    sSkipped,       \* the skipped list returned
    spc,            \* "input" before _apply_skip_logic ran, "done" after
    \* ---- merge harness ----
    uFirst,         \* a candidate of one (game, platform) key
    uSecond,        \* another candidate of the same key
    uMerged12,      \* the dict entry after upserting uFirst, then uSecond
    uMerged21,      \* the dict entry after upserting uSecond, then uFirst
    upc,            \* "input" before _upsert_candidate ran, "done" after
    \* ---- resolver harness ----
    bCode,          \* the code argument
    bTokens,        \* the requested_platforms argument
    bFeedRead,      \* what reading the remote feed does: "records", "none", "raise"
    bDbKeys,        \* what fetch_keys_for_code returns for the code
    bSourceKeys,    \* what _load_source_matches returns for the code
    bRedeemed,      \* redeemed_map of the code
    bFailed,        \* failed_map of the code
    bBypass,        \* bypass_fail
    bPlan,          \* the RedemptionPlan returned
    bError,         \* the error build_redemption_plan raised, if any
    bAccess,        \* the store operations build_redemption_plan made, in order
    bpc,            \* "input" before build_redemption_plan ran, "done" after
    \* ---- feed cache harness: build_redemption_plan calls of one process ----
    fFeed,          \* the records the remote feed holds
    dataset,        \* the lru_cache of _get_shift_dataset: whether it holds the
                    \* result of a call, and that result
    fParses,        \* invocations of the feed parser so far
    fRaises,        \* invocations of the feed parser that raised
    fCalls,         \* build_redemption_plan calls so far
    fPlan,          \* the plan the last call returned, None if it raised
    fpc,            \* "run" while the process lives
    \* ---- the persistent store and the remote feed ----
    keysTable,      \* the keys table: a sequence of key rows, in id order
    redeemedRows,   \* success outcomes: (code, game, platform) -> row
    failedRows,     \* failure outcomes: (code, game, platform) -> row
    feed,           \* the records of the remote codes feed
    \* ---- the process: its arguments and the shared client ----
    args,           \* the parsed command line of bulk runs
    last_status,    \* client.last_status
    service,        \* the answers the remote service gives: "basic", "full", "steady"
    \* ---- one run of main() ----
    pc,             \* "idle", "batch", "loop", "manual", "done", "crashed"
    runs,           \* the number of runs started
    all_keys,       \* bulk: per batch, the keys query_keys_with_mapping found
    batch,          \* bulk: the index of the current (game, platform) batch
    plan_cache,     \* bulk: normalized code -> RedemptionPlan
    processed_pairs,\* bulk: the per-run seen-set of (code, game, platform)
    base_queue,     \* bulk: the batch's base queue
    pending_queue,  \* bulk: the batch's pending queue
    overflow_index, \* bulk: the next base_queue index to refill from
    attempted_count,\* bulk: attempts made in the current batch
    mtargets,       \* manual: the (game, platform) targets still to try
    context,        \* manual: the ManualContext and the base key's id
    results,        \* manual: the AttemptResult list
    \* ---- history of the current run ----
    calls,          \* (code, game, platform) -> remote calls made
    attemptSteps,   \* (code, game, platform) -> times taken through the attempt step
    writes,         \* (code, game, platform) -> outcome rows written
    sleeps,         \* cooldowns slept
    lastEvent       \* what the last step of the run did

nvars == <<raw, normalized, normalizedM, renormalized, npc>>

svars == <<sCandidates, sRedeemed, sFailed, sBypass, sNow, sAttempts, sSkipped, spc>>

storevars == <<keysTable, redeemedRows, failedRows, feed>>

procvars == <<args, last_status, service>>

runvars == <<pc, runs, all_keys, batch, plan_cache, processed_pairs, base_queue,
             pending_queue, overflow_index, attempted_count, mtargets, context, results>>

histvars == <<calls, attemptSteps, writes, sleeps, lastEvent>>

rvars == <<storevars, procvars, runvars, histvars>>

uvars == <<uFirst, uSecond, uMerged12, uMerged21, upc>>

bvars == <<bCode, bTokens, bFeedRead, bDbKeys, bSourceKeys, bRedeemed, bFailed, bBypass,
           bPlan, bError, bAccess, bpc>>

fvars == <<fFeed, dataset, fParses, fRaises, fCalls, fPlan, fpc>>

vars == <<nvars, svars, uvars, bvars, fvars, rvars>>

-----------------------------------------------------------------------------
(* Generic helpers                                                         *)

None == <<"<None>">>

Min(a, b) == IF a < b THEN a ELSE b

Max(a, b) == IF a > b THEN a ELSE b

RECURSIVE SelectSeqIdx(_, _, _)
\* the subsequence of s at the positions i >= from for which keep[i] holds
SelectSeqIdx(s, keep, from) ==
    IF from > Len(s) THEN <<>>
    ELSE (IF keep[from] THEN <<s[from]>> ELSE <<>>) \o SelectSeqIdx(s, keep, from + 1)

-----------------------------------------------------------------------------
(* Characters (ASCII semantics of str.upper, str.strip, str.isalnum, re)   *)

UpperLetters == <<"A","B","C","D","E","F","G","H","I","J","K","L","M",
                  "N","O","P","Q","R","S","T","U","V","W","X","Y","Z">>

LowerLetters == <<"a","b","c","d","e","f","g","h","i","j","k","l","m",
                  "n","o","p","q","r","s","t","u","v","w","x","y","z">>

Digits == {"0","1","2","3","4","5","6","7","8","9"}

UpperSet == {UpperLetters[i] : i \in 1..Len(UpperLetters)}

LowerSet == {LowerLetters[i] : i \in 1..Len(LowerLetters)}

Whitespace == {" ", "\t", "\n", "\r"}

\* str.isalnum on one character
IsAlnumChar(c) == c \in UpperSet \cup LowerSet \cup Digits

\* str.upper on one character
UpperChar(c) ==
    IF c \in LowerSet
    THEN UpperLetters[CHOOSE i \in 1..Len(LowerLetters) : LowerLetters[i] = c]
    ELSE c

\* str.upper
StrUpper(s) == [i \in 1..Len(s) |-> UpperChar(s[i])]

\* str.isalnum: every character alphanumeric and at least one character
StrIsAlnum(s) == Len(s) > 0 /\ \A i \in 1..Len(s) : IsAlnumChar(s[i])

\* str.strip: drop leading and trailing whitespace
StrStrip(s) ==
    LET keepIdx == {i \in 1..Len(s) : s[i] \notin Whitespace}
    IN  IF keepIdx = {} THEN <<>>
        ELSE LET lo == CHOOSE i \in keepIdx : \A j \in keepIdx : i <= j
                 hi == CHOOSE i \in keepIdx : \A j \in keepIdx : i >= j
             IN  SubSeq(s, lo, hi)

\* Python slice s[i:j] with 0-based i <= j, clipped to the string
Slice(s, i, j) == SubSeq(s, Min(i, Len(s)) + 1, Min(j, Len(s)))

RECURSIVE Join(_, _)
\* sep.join(parts)
Join(sep, parts) ==
    IF Len(parts) = 0 THEN <<>>
    ELSE IF Len(parts) = 1 THEN parts[1]
    ELSE parts[1] \o sep \o Join(sep, Tail(parts))

-----------------------------------------------------------------------------
(* Code normalizer                                                         *)

CodeLen == 25

BlockLen == 5

\* _CODE_RE = ^[A-Z0-9-]{5}(?:[A-Z0-9-]{5}){4}$ with re.IGNORECASE:
\* exactly 25 characters, each a letter, a digit or a dash
CODE_RE_match(s) ==
    /\ Len(s) = BlockLen + BlockLen * 4
    /\ \A i \in 1..Len(s) : IsAlnumChar(s[i]) \/ s[i] = "-"

\* _STRIP_RE.sub("", s) with _STRIP_RE = [^A-Z0-9], re.IGNORECASE
STRIP_RE_sub(s) ==
    SelectSeqIdx(s, [i \in 1..Len(s) |-> IsAlnumChar(s[i])], 1)

\* [candidate[i : i + 5] for i in range(0, 25, 5)] joined by "-"
DashedBlocks(candidate) ==
    Join(<<"-">>,
         [k \in 1..(CodeLen \div BlockLen) |->
             Slice(candidate, (k - 1) * BlockLen, (k - 1) * BlockLen + BlockLen)])

\* m_redeem._normalize_shift_code
M_normalize_shift_code(r) ==
    LET candidate == StrUpper(StrStrip(r))
    IN  IF ~CODE_RE_match(candidate)
        THEN LET stripped == STRIP_RE_sub(candidate)
             IN  IF Len(stripped) # CodeLen \/ ~StrIsAlnum(stripped)
                 THEN None
                 ELSE DashedBlocks(stripped)
        ELSE DashedBlocks(STRIP_RE_sub(candidate))

\* normalize_shift_code without the .upper() of line 63
normalize_shift_code_NoUpper(r) ==
    IF r = <<>> \/ r = None THEN None
    ELSE LET candidate == StrStrip(r)
         IN  IF ~CODE_RE_match(candidate)
             THEN LET stripped == STRIP_RE_sub(candidate)
                  IN  IF Len(stripped) # CodeLen \/ ~StrIsAlnum(stripped)
                      THEN None
                      ELSE DashedBlocks(stripped)
             ELSE DashedBlocks(STRIP_RE_sub(candidate))

\* redeem_logic.normalize_shift_code
normalize_shift_code(r) ==
    IF r = <<>> \/ r = None THEN None
    ELSE LET candidate == StrUpper(StrStrip(r))
         IN  IF ~CODE_RE_match(candidate)
             THEN LET stripped == STRIP_RE_sub(candidate)
                  IN  IF Len(stripped) # CodeLen \/ ~StrIsAlnum(stripped)
                      THEN None
                      ELSE DashedBlocks(stripped)
             ELSE DashedBlocks(STRIP_RE_sub(candidate))


-----------------------------------------------------------------------------
(* Registries and candidates                                               *)

NoneStr == "None"

\* Optional[datetime] None for expires_at
NoTime == -1

\* the first entries of the game and platform registries, in canonical order
ALL_SUPPORTED_GAMES == <<"bl4", "bl3">>

ALL_SUPPORTED_PLATFORMS == <<"epic", "steam">>

SeqToSet(s) == {s[i] : i \in 1..Len(s)}

Pair(c) == <<c.game, c.platform>>

\* every (game, platform) in canonical game-major order
AllPairs ==
    [k \in 1..(Len(ALL_SUPPORTED_GAMES) * Len(ALL_SUPPORTED_PLATFORMS)) |->
        <<ALL_SUPPORTED_GAMES[((k - 1) \div Len(ALL_SUPPORTED_PLATFORMS)) + 1],
          ALL_SUPPORTED_PLATFORMS[((k - 1) % Len(ALL_SUPPORTED_PLATFORMS)) + 1]>>]

\* _ORIGIN_PRIORITY.get(origin, 99)
ORIGIN_PRIORITY(origin) ==
    CASE origin = "db" -> 0
      [] origin = "shift" -> 1
      [] origin = "fallback" -> 2
      [] OTHER -> 99

\* RedemptionCandidate as _make_candidate returns it
RedemptionCandidate(code, game, platform, reward, origin, expires_at, expired_flag) ==
    [code |-> code, game |-> game, platform |-> platform,
     reward |-> reward, origin |-> origin,
     expires_at |-> expires_at, expired_flag |-> expired_flag,
     preclassified_status |-> NoneStr, skip_reason |-> NoneStr,
     previously_redeemed |-> FALSE, previously_redeemed_status |-> NoneStr,
     previously_failed |-> NoneStr, failure_detail |-> NoneStr,
     should_record_preclassification |-> FALSE,
     source |-> NoneStr,
     priority |-> ORIGIN_PRIORITY(origin)]

-----------------------------------------------------------------------------
(* Skip-logic classifier                                                   *)

\* truth of dict.get(pair): the pair has a row
HasRow(map, pair) == pair \in DOMAIN map

\* candidate.expired_flag or (expires_at is not None and expires_at <= now)
expired_now_Strict(candidate, now) ==
    candidate.expired_flag
        \/ (candidate.expires_at # NoTime /\ candidate.expires_at < now)

expired_now(candidate, now) ==
    candidate.expired_flag
        \/ (candidate.expires_at # NoTime /\ candidate.expires_at <= now)

\* the body of the for loop of _apply_skip_logic for one candidate, with the
\* success check after the expiry and failure checks
ClassifyOne_SuccessLast(candidate, redeemed_map, failed_map, now, bypass_fail) ==
    LET failure == HasRow(failed_map, Pair(candidate))
        success == HasRow(redeemed_map, Pair(candidate))
        c1 == IF failure
              THEN [candidate EXCEPT
                       !.previously_failed = failed_map[Pair(candidate)].status,
                       !.failure_detail = failed_map[Pair(candidate)].detail]
              ELSE candidate
        c3 == IF expired_now(candidate, now)
              THEN [c1 EXCEPT !.preclassified_status = "EXPIRED"]
              ELSE c1
    IN  IF expired_now(candidate, now) /\ ~bypass_fail
        THEN [cand |-> [c3 EXCEPT !.skip_reason = "expired",
                                  !.should_record_preclassification = ~failure],
              skip |-> TRUE]
        ELSE IF failure /\ ~bypass_fail
        THEN [cand |-> [c3 EXCEPT !.skip_reason = "failed"], skip |-> TRUE]
        ELSE IF success
        THEN [cand |-> [c3 EXCEPT !.previously_redeemed = TRUE,
                                  !.previously_redeemed_status = redeemed_map[Pair(candidate)].status,
                                  !.skip_reason = "redeemed"],
              skip |-> TRUE]
        ELSE [cand |-> [c3 EXCEPT !.skip_reason = NoneStr,
                                  !.should_record_preclassification = FALSE],
              skip |-> FALSE]

\* the body of the for loop of _apply_skip_logic for one candidate with
\* "should_record_preclassification = True" at line 261
ClassifyOne_AlwaysRecord(candidate, redeemed_map, failed_map, now, bypass_fail) ==
    LET failure == HasRow(failed_map, Pair(candidate))
        c1 == IF failure
              THEN [candidate EXCEPT
                       !.previously_failed = failed_map[Pair(candidate)].status,
                       !.failure_detail = failed_map[Pair(candidate)].detail]
              ELSE candidate
    IN  IF HasRow(redeemed_map, Pair(candidate))
        THEN [cand |-> [c1 EXCEPT !.previously_redeemed = TRUE,
                                  !.previously_redeemed_status = redeemed_map[Pair(candidate)].status,
                                  !.skip_reason = "redeemed"],
              skip |-> TRUE]
        ELSE IF expired_now(candidate, now) /\ ~bypass_fail
        THEN [cand |-> [c1 EXCEPT !.preclassified_status = "EXPIRED",
                                  !.skip_reason = "expired",
                                  !.should_record_preclassification = TRUE],
              skip |-> TRUE]
        ELSE IF failure /\ ~bypass_fail
        THEN [cand |-> [c1 EXCEPT !.skip_reason = "failed"], skip |-> TRUE]
        ELSE [cand |-> [c1 EXCEPT
                           !.preclassified_status =
                               IF expired_now(candidate, now) THEN "EXPIRED" ELSE NoneStr,
                           !.skip_reason = NoneStr],
              skip |-> FALSE]

\* the body of the for loop of _apply_skip_logic for one candidate with the
\* failure test of lines 266-269 ahead of the expiry test of lines 254-264
ClassifyOne_FailureFirst(candidate, redeemed_map, failed_map, now, bypass_fail) ==
    LET failure == HasRow(failed_map, Pair(candidate))
        c1 == IF failure
              THEN [candidate EXCEPT
                       !.previously_failed = failed_map[Pair(candidate)].status,
                       !.failure_detail = failed_map[Pair(candidate)].detail]
              ELSE candidate
    IN  IF HasRow(redeemed_map, Pair(candidate))
        THEN [cand |-> [c1 EXCEPT !.previously_redeemed = TRUE,
                                  !.previously_redeemed_status = redeemed_map[Pair(candidate)].status,
                                  !.skip_reason = "redeemed"],
              skip |-> TRUE]
        ELSE IF failure /\ ~bypass_fail
        THEN [cand |-> [c1 EXCEPT !.skip_reason = "failed"], skip |-> TRUE]
        ELSE IF expired_now(candidate, now) /\ ~bypass_fail
        THEN [cand |-> [c1 EXCEPT !.preclassified_status = "EXPIRED",
                                  !.skip_reason = "expired",
                                  !.should_record_preclassification = ~failure],
              skip |-> TRUE]
        ELSE [cand |-> [c1 EXCEPT
                           !.preclassified_status =
                               IF expired_now(candidate, now) THEN "EXPIRED" ELSE NoneStr,
                           !.skip_reason = NoneStr],
              skip |-> FALSE]

\* the body of the for loop of _apply_skip_logic for one candidate without
\* lines 243-244: the stored failure is not copied to the candidate
ClassifyOne_NoLabel(candidate, redeemed_map, failed_map, now, bypass_fail) ==
    LET failure == HasRow(failed_map, Pair(candidate))
    IN  IF HasRow(redeemed_map, Pair(candidate))
        THEN [cand |-> [candidate EXCEPT
                           !.previously_redeemed = TRUE,
                           !.previously_redeemed_status = redeemed_map[Pair(candidate)].status,
                           !.skip_reason = "redeemed"],
              skip |-> TRUE]
        ELSE IF expired_now(candidate, now) /\ ~bypass_fail
        THEN [cand |-> [candidate EXCEPT !.preclassified_status = "EXPIRED",
                                         !.skip_reason = "expired",
                                         !.should_record_preclassification = ~failure],
              skip |-> TRUE]
        ELSE IF failure /\ ~bypass_fail
        THEN [cand |-> [candidate EXCEPT !.skip_reason = "failed"], skip |-> TRUE]
        ELSE [cand |-> [candidate EXCEPT
                           !.preclassified_status =
                               IF expired_now(candidate, now) THEN "EXPIRED" ELSE NoneStr,
                           !.skip_reason = NoneStr],
              skip |-> FALSE]

\* the body of the for loop of _apply_skip_logic for one candidate without
\* the tests of bypass_fail at lines 259 and 266
ClassifyOne_NoBypass(candidate, redeemed_map, failed_map, now, bypass_fail) ==
    LET failure == HasRow(failed_map, Pair(candidate))
        c1 == IF failure
              THEN [candidate EXCEPT
                       !.previously_failed = failed_map[Pair(candidate)].status,
                       !.failure_detail = failed_map[Pair(candidate)].detail]
              ELSE candidate
    IN  IF HasRow(redeemed_map, Pair(candidate))
        THEN [cand |-> [c1 EXCEPT !.previously_redeemed = TRUE,
                                  !.previously_redeemed_status = redeemed_map[Pair(candidate)].status,
                                  !.skip_reason = "redeemed"],
              skip |-> TRUE]
        ELSE IF expired_now(candidate, now)
        THEN [cand |-> [c1 EXCEPT !.preclassified_status = "EXPIRED",
                                  !.skip_reason = "expired",
                                  !.should_record_preclassification = ~failure],
              skip |-> TRUE]
        ELSE IF failure
        THEN [cand |-> [c1 EXCEPT !.skip_reason = "failed"], skip |-> TRUE]
        ELSE [cand |-> [c1 EXCEPT !.skip_reason = NoneStr], skip |-> FALSE]

\* the body of the for loop of _apply_skip_logic for one candidate: the
\* candidate as updated, and whether it goes to skipped (else to attempts)
ClassifyOne(candidate, redeemed_map, failed_map, now, bypass_fail) ==
    LET failure == HasRow(failed_map, Pair(candidate))
        success == HasRow(redeemed_map, Pair(candidate))
        c1 == IF failure
              THEN [candidate EXCEPT
                       !.previously_failed = failed_map[Pair(candidate)].status,
                       !.failure_detail = failed_map[Pair(candidate)].detail]
              ELSE candidate
    IN  IF success
        THEN [cand |-> [c1 EXCEPT !.previously_redeemed = TRUE,
                                  !.previously_redeemed_status = redeemed_map[Pair(candidate)].status,
                                  !.skip_reason = "redeemed"],
              skip |-> TRUE]
        ELSE LET c3 == IF expired_now(candidate, now)
                       THEN [c1 EXCEPT !.preclassified_status = "EXPIRED"]
                       ELSE c1
             IN  IF expired_now(candidate, now) /\ ~bypass_fail
                 THEN [cand |-> [c3 EXCEPT !.skip_reason = "expired",
                                           !.should_record_preclassification =
                                               ~failure],
                       skip |-> TRUE]
                 ELSE LET c4 == IF expired_now(candidate, now)
                                THEN [c3 EXCEPT !.should_record_preclassification = FALSE]
                                ELSE c3
                      IN  IF failure /\ ~bypass_fail
                          THEN [cand |-> [c4 EXCEPT !.skip_reason = "failed"],
                                skip |-> TRUE]
                          ELSE [cand |-> [c4 EXCEPT !.skip_reason = NoneStr],
                                skip |-> FALSE]

RECURSIVE ApplyFrom(_, _, _, _, _, _)
ApplyFrom(candidates, i, redeemed_map, failed_map, now, bypass_fail) ==
    IF i > Len(candidates)
    THEN [candidates |-> <<>>, attempts |-> <<>>, skipped |-> <<>>]
    ELSE LET one == ClassifyOne(candidates[i], redeemed_map, failed_map, now, bypass_fail)
             rest == ApplyFrom(candidates, i + 1, redeemed_map, failed_map, now, bypass_fail)
         IN  [candidates |-> <<one.cand>> \o rest.candidates,
              attempts |-> IF one.skip THEN rest.attempts
                           ELSE <<one.cand>> \o rest.attempts,
              skipped |-> IF one.skip THEN <<one.cand>> \o rest.skipped
                          ELSE rest.skipped]

\* _apply_skip_logic that drops a candidate skipped for a stored failure
\* instead of appending it to skipped
apply_skip_logic_DropFailed(candidates, redeemed_map, failed_map, now, bypass_fail) ==
    LET r == ApplyFrom(candidates, 1, redeemed_map, failed_map, now, bypass_fail)
    IN  [r EXCEPT !.skipped = SelectSeq(r.skipped, LAMBDA c : c.skip_reason # "failed")]

\* _apply_skip_logic reading a success outcome of a game for every platform
\* of that game
apply_skip_logic_GameWide(candidates, redeemed_map, failed_map, now, bypass_fail) ==
    ApplyFrom(candidates, 1,
              [pr \in {<<q[1], plat>> : q \in DOMAIN redeemed_map,
                                        plat \in SeqToSet(ALL_SUPPORTED_PLATFORMS)} |->
                  redeemed_map[CHOOSE q \in DOMAIN redeemed_map : q[1] = pr[1]]],
              failed_map, now, bypass_fail)

\* _apply_skip_logic: the candidates as mutated in place, and the two lists
apply_skip_logic(candidates, redeemed_map, failed_map, now, bypass_fail) ==
    ApplyFrom(candidates, 1, redeemed_map, failed_map, now, bypass_fail)

-----------------------------------------------------------------------------
(* Codes.  A code is named by its text; Chars gives the text as a sequence *)
(* of characters, on which the normalizer works.                           *)

CodeA == "ABCDE-FGHIJ-KLMNO-PQRST-UVWXY"

CodeB == "11111-22222-33333-44444-55555"

CodeALower == "abcdefghijklmnopqrstuvwxy"

CodeBad == "ABCDE-12345"

\* sixteen more codes, which differ in their last character
ThrottleCodes ==
    <<"ABCDE-FGHIJ-KLMNO-PQRST-UVWX0", "ABCDE-FGHIJ-KLMNO-PQRST-UVWX1",
      "ABCDE-FGHIJ-KLMNO-PQRST-UVWX2", "ABCDE-FGHIJ-KLMNO-PQRST-UVWX3",
      "ABCDE-FGHIJ-KLMNO-PQRST-UVWX4", "ABCDE-FGHIJ-KLMNO-PQRST-UVWX5",
      "ABCDE-FGHIJ-KLMNO-PQRST-UVWX6", "ABCDE-FGHIJ-KLMNO-PQRST-UVWX7",
      "ABCDE-FGHIJ-KLMNO-PQRST-UVWX8", "ABCDE-FGHIJ-KLMNO-PQRST-UVWX9",
      "ABCDE-FGHIJ-KLMNO-PQRST-UVWXA", "ABCDE-FGHIJ-KLMNO-PQRST-UVWXB",
      "ABCDE-FGHIJ-KLMNO-PQRST-UVWXC", "ABCDE-FGHIJ-KLMNO-PQRST-UVWXD",
      "ABCDE-FGHIJ-KLMNO-PQRST-UVWXE", "ABCDE-FGHIJ-KLMNO-PQRST-UVWXF">>

ThrottleTails == <<"0", "1", "2", "3", "4", "5", "6", "7", "8", "9", "A", "B", "C", "D", "E", "F">>

CharsA == <<"A","B","C","D","E","-","F","G","H","I","J","-","K","L","M","N","O","-","P","Q","R","S","T","-","U","V","W","X","Y">>

Chars ==
    [code \in SeqToSet(ThrottleCodes) |->
        [CharsA EXCEPT ![Len(CharsA)] =
            ThrottleTails[CHOOSE i \in 1..Len(ThrottleCodes) : ThrottleCodes[i] = code]]] @@
    (CodeA :> <<"A","B","C","D","E","-","F","G","H","I","J","-","K","L","M","N","O","-","P","Q","R","S","T","-","U","V","W","X","Y">>) @@
    (CodeB :> <<"1","1","1","1","1","-","2","2","2","2","2","-","3","3","3","3","3","-","4","4","4","4","4","-","5","5","5","5","5">>) @@
    (CodeALower :> <<"a","b","c","d","e","f","g","h","i","j","k","l","m","n","o","p","q","r","s","t","u","v","w","x","y">>) @@
    (CodeBad :> <<"A","B","C","D","E","-","1","2","3","4","5">>)

\* the code whose text is the character sequence s
CodeOf(s) == CHOOSE c \in DOMAIN Chars : Chars[c] = s

\* normalize_shift_code on a code: the normalized code, or NoneStr
NormalizedCode ==
    [c \in DOMAIN Chars |->
        IF normalize_shift_code(Chars[c]) = None THEN NoneStr
        ELSE CodeOf(normalize_shift_code(Chars[c]))]

-----------------------------------------------------------------------------
(* Candidate resolver (build_redemption_plan and its helpers)              *)

\* query.known_games.inv: display name -> short name
KnownGamesInv == ("Borderlands 3" :> "bl3")

\* _canonical_platform
canonical_platform(platform) ==
    IF platform = NoneStr \/ platform = "" THEN NoneStr
    ELSE IF platform \in {"manual", "universal"} THEN platform
    ELSE IF platform \in SeqToSet(ALL_SUPPORTED_PLATFORMS) THEN platform
    ELSE NoneStr

RECURSIVE AppendUnseen(_, _, _)
\* for plat in plats: if plat not in seen: seen.add(plat); normalized.append(plat)
AppendUnseen(acc, plats, k) ==
    IF k > Len(plats) THEN acc
    ELSE AppendUnseen(IF plats[k] \in acc.seen THEN acc
                      ELSE [normalized |-> Append(acc.normalized, plats[k]),
                            seen |-> acc.seen \cup {plats[k]}],
                      plats, k + 1)

RECURSIVE NormalizeTokens(_, _, _)
\* the for loop of lines 81-98 from the i-th token on: normalized and seen
NormalizeTokens(platforms, i, acc) ==
    IF i > Len(platforms) THEN acc
    ELSE LET canonical == canonical_platform(platforms[i])
         IN  IF platforms[i] = "" \/ canonical \in {NoneStr, "manual"}
             THEN NormalizeTokens(platforms, i + 1, acc)
             ELSE IF canonical = "universal"
             THEN NormalizeTokens(platforms, i + 1,
                                  AppendUnseen(acc, ALL_SUPPORTED_PLATFORMS, 1))
             ELSE IF canonical \notin SeqToSet(ALL_SUPPORTED_PLATFORMS)
             THEN NormalizeTokens(platforms, i + 1, acc)
             ELSE NormalizeTokens(platforms, i + 1, AppendUnseen(acc, <<canonical>>, 1))

\* normalize_requested_platforms returning the list in the order the tokens
\* were given (without the reordering of lines 103-106)
normalize_requested_platforms_RequestOrder(platforms) ==
    IF platforms = <<>> THEN ALL_SUPPORTED_PLATFORMS
    ELSE NormalizeTokens(platforms, 1, [normalized |-> <<>>, seen |-> {}]).normalized

\* normalize_requested_platforms; <<>> stands for the ValueError of line 101
normalize_requested_platforms(platforms) ==
    IF platforms = <<>> THEN ALL_SUPPORTED_PLATFORMS
    ELSE LET acc == NormalizeTokens(platforms, 1, [normalized |-> <<>>, seen |-> {}])
             ordered == SelectSeq(ALL_SUPPORTED_PLATFORMS, LAMBDA plat : plat \in acc.seen)
         IN  IF acc.normalized = <<>> THEN <<>>
             ELSE ordered \o SelectSeq(acc.normalized,
                                       LAMBDA plat : plat \notin SeqToSet(ordered))

\* _expand_platforms with a wildcard row expanded to the whole registry
\* instead of the requested platforms
expand_platforms_Registry(platform, requested) ==
    IF canonical_platform(platform) \in {NoneStr, "manual", "universal"}
    THEN ALL_SUPPORTED_PLATFORMS
    ELSE IF canonical_platform(platform) \in SeqToSet(requested)
         THEN <<canonical_platform(platform)>>
         ELSE <<>>

\* _expand_platforms without the test of line 371: a row's own platform is
\* returned whether it is requested or not
expand_platforms_Unfiltered(platform, requested) ==
    IF canonical_platform(platform) \in {NoneStr, "manual", "universal"}
    THEN requested
    ELSE <<canonical_platform(platform)>>

\* _expand_platforms
expand_platforms(platform, requested) ==
    IF canonical_platform(platform) \in {NoneStr, "manual", "universal"}
    THEN requested
    ELSE IF canonical_platform(platform) \in SeqToSet(requested)
         THEN <<canonical_platform(platform)>>
         ELSE <<>>

\* _normalize_game
normalize_game(game) ==
    IF game = NoneStr \/ game = "" THEN NoneStr
    ELSE IF game \in SeqToSet(ALL_SUPPORTED_GAMES) THEN game
    ELSE IF game \in DOMAIN KnownGamesInv
              /\ KnownGamesInv[game] \in SeqToSet(ALL_SUPPORTED_GAMES)
         THEN KnownGamesInv[game]
         ELSE NoneStr

\* _normalize_expired_flag on the stored value (a bool, a number or text)
normalize_expired_flag(value) ==
    value \in {"bool:True", "int:1", "str:true", "str:1", "str:yes", "str:y"}

\* _parse_expiry: the UTC instant of a stored expiry, or NoTime.  A stored
\* expiry is absent, unparsable text, a naive timestamp (taken as UTC) or a
\* timestamp with a UTC offset.
parse_expiry(value) ==
    CASE value.kind = "none" -> NoTime
      [] value.kind = "bad" -> NoTime
      [] value.kind = "naive" -> value.local
      [] value.kind = "aware" -> value.local - value.offset

NoExpiry == [kind |-> "none"]

ExpiryAt(t) == [kind |-> "naive", local |-> t]

\* a row of the keys table or of the remote feed (a query.Key)
KeyRow(code, game, platform, reward, expires, expired) ==
    [code |-> code, game |-> game, platform |-> platform, reward |-> reward,
     expires |-> expires, expired |-> expired, redeemed |-> FALSE]

\* (reward or "").strip() or "Unknown"
reward_value(reward) == IF reward \in {NoneStr, "", " "} THEN "Unknown" ELSE reward

\* _make_candidate (the identity row it ensures is added by ensure_keys)
make_candidate(code, game, platform, reward, origin, source, expires, expired_flag) ==
    [RedemptionCandidate(code, game, platform, reward_value(reward), origin,
                         parse_expiry(expires), expired_flag)
        EXCEPT !.source = source]

\* existing.reward.strip().lower() == "unknown"
IsUnknownReward(reward) == reward \in {"Unknown", "unknown", "UNKNOWN"}

\* the fill-in of lines 289-300: what an existing entry takes from a candidate
fill_in(existing, candidate) ==
    LET e1 == IF IsUnknownReward(existing.reward) /\ candidate.reward # ""
              THEN [existing EXCEPT !.reward = candidate.reward]
              ELSE existing
        e2 == IF e1.expires_at = NoTime /\ candidate.expires_at # NoTime
              THEN [e1 EXCEPT !.expires_at = candidate.expires_at,
                              !.expired_flag = candidate.expired_flag]
              ELSE e1
        e3 == IF e2.preclassified_status = NoneStr
                   /\ candidate.preclassified_status # NoneStr
              THEN [e2 EXCEPT !.preclassified_status = candidate.preclassified_status]
              ELSE e2
    IN  IF e3.source \in {NoneStr, "fallback"} /\ candidate.source \notin {NoneStr, ""}
        THEN [e3 EXCEPT !.source = candidate.source]
        ELSE e3

\* _upsert_candidate without the early return of lines 286-287: a candidate
\* of lower priority fills the gaps of the existing entry
upsert_candidate_Blend(candidates, candidate) ==
    IF Pair(candidate) \notin DOMAIN candidates
    THEN candidates @@ (Pair(candidate) :> candidate)
    ELSE IF candidate.priority < candidates[Pair(candidate)].priority
         THEN [candidates EXCEPT ![Pair(candidate)] = candidate]
         ELSE [candidates EXCEPT ![Pair(candidate)] = fill_in(@, candidate)]

\* _upsert_candidate returning on equal priority as well (>= at line 286):
\* the entry upserted first is kept as it is
upsert_candidate_FirstKept(candidates, candidate) ==
    IF Pair(candidate) \notin DOMAIN candidates
    THEN candidates @@ (Pair(candidate) :> candidate)
    ELSE IF candidate.priority < candidates[Pair(candidate)].priority
         THEN [candidates EXCEPT ![Pair(candidate)] = candidate]
         ELSE candidates

\* _upsert_candidate on the dict candidates (a function on pairs)
upsert_candidate(candidates, candidate) ==
    LET key == Pair(candidate)
    IN  IF key \notin DOMAIN candidates
        THEN candidates @@ (key :> candidate)
        ELSE LET existing == candidates[key]
             IN  IF candidate.priority < existing.priority
                 THEN [candidates EXCEPT ![key] = candidate]
                 ELSE IF candidate.priority > existing.priority
                 THEN candidates
                 ELSE LET e1 == IF IsUnknownReward(existing.reward)
                                     /\ candidate.reward # ""
                                THEN [existing EXCEPT !.reward = candidate.reward]
                                ELSE existing
                          e2 == IF e1.expires_at = NoTime /\ candidate.expires_at # NoTime
                                THEN [e1 EXCEPT !.expires_at = candidate.expires_at,
                                                !.expired_flag = candidate.expired_flag]
                                ELSE e1
                          e3 == IF e2.preclassified_status = NoneStr
                                     /\ candidate.preclassified_status # NoneStr
                                THEN [e2 EXCEPT !.preclassified_status =
                                                    candidate.preclassified_status]
                                ELSE e2
                          e4 == IF e3.source \in {NoneStr, "fallback"}
                                     /\ candidate.source \notin {NoneStr, ""}
                                THEN [e3 EXCEPT !.source = candidate.source]
                                ELSE e3
                      IN  [candidates EXCEPT ![key] = e4]

\* _determine_matched_games
determine_matched_games(db_keys, source_keys) ==
    ({normalize_game(db_keys[i].game) : i \in 1..Len(db_keys)}
        \cup {normalize_game(source_keys[i].game) : i \in 1..Len(source_keys)})
      \ {NoneStr}

\* games_to_probe without the restriction to the matched games
games_to_probe_Registry(matched_games) == ALL_SUPPORTED_GAMES

\* the games_to_probe of build_redemption_plan
games_to_probe(matched_games) ==
    IF matched_games # {}
    THEN SelectSeq(ALL_SUPPORTED_GAMES, LAMBDA g : g \in matched_games)
    ELSE ALL_SUPPORTED_GAMES

RECURSIVE UpsertPlatforms(_, _, _, _, _, _, _)
\* the inner for loop over _expand_platforms(key.platform, requested)
UpsertPlatforms(candidates, code, key, game, origin, platforms, i) ==
    IF i > Len(platforms) THEN candidates
    ELSE UpsertPlatforms(
            upsert_candidate(candidates,
                make_candidate(code, game, platforms[i], key.reward, origin,
                               IF origin = "db" THEN "database" ELSE "shift_source",
                               key.expires, normalize_expired_flag(key.expired))),
            code, key, game, origin, platforms, i + 1)

RECURSIVE UpsertKeys(_, _, _, _, _, _, _)
\* the for loops over db_keys (origin "db") and source_keys (origin "shift")
UpsertKeys(candidates, code, keys, origin, matched_games, requested, i) ==
    IF i > Len(keys) THEN candidates
    ELSE LET game == normalize_game(keys[i].game)
         IN  IF game = NoneStr \/ (game \notin matched_games /\ matched_games # {})
             THEN UpsertKeys(candidates, code, keys, origin, matched_games, requested, i + 1)
             ELSE UpsertKeys(
                     UpsertPlatforms(candidates, code, keys[i], game, origin,
                                     expand_platforms(keys[i].platform, requested), 1),
                     code, keys, origin, matched_games, requested, i + 1)

\* the synthetic candidates of lines 168-181
FallbackCandidates(code, games, requested) ==
    [pr \in {<<g, p>> : g \in SeqToSet(games), p \in SeqToSet(requested)} |->
        make_candidate(code, pr[1], pr[2], "Unknown", "fallback", "fallback",
                       NoExpiry, FALSE)]

\* _order_candidates with the loops nested the other way round: platform by
\* platform, and within a platform game by game
order_candidates_PlatformMajor(candidates, games) ==
    LET n == Len(games) * Len(ALL_SUPPORTED_PLATFORMS)
        pairAt(k) == <<games[((k - 1) % Len(games)) + 1],
                       ALL_SUPPORTED_PLATFORMS[((k - 1) \div Len(games)) + 1]>>
        present == [k \in 1..n |-> pairAt(k) \in DOMAIN candidates]
    IN  SelectSeqIdx([k \in 1..n |-> IF present[k] THEN candidates[pairAt(k)] ELSE NoneStr],
                     present, 1)

\* _order_candidates
order_candidates(candidates, games) ==
    LET n == Len(games) * Len(ALL_SUPPORTED_PLATFORMS)
        pairAt(k) == <<games[((k - 1) \div Len(ALL_SUPPORTED_PLATFORMS)) + 1],
                       ALL_SUPPORTED_PLATFORMS[((k - 1) % Len(ALL_SUPPORTED_PLATFORMS)) + 1]>>
        present == [k \in 1..n |-> pairAt(k) \in DOMAIN candidates]
    IN  SelectSeqIdx([k \in 1..n |-> IF present[k] THEN candidates[pairAt(k)] ELSE NoneStr],
                     present, 1)

\* _determine_reward_hint
determine_reward_hint(candidates) ==
    LET known == {i \in 1..Len(candidates) : ~IsUnknownReward(candidates[i].reward)}
    IN  IF known = {} THEN "Unknown"
        ELSE candidates[CHOOSE i \in known : \A j \in known : i <= j].reward

\* the merged candidate dict of build_redemption_plan (lines 132-181)
merged_candidates(code, db_keys, source_keys, requested) ==
    LET matched == determine_matched_games(db_keys, source_keys)
        fromDb == UpsertKeys(<<>>, code, db_keys, "db", matched, requested, 1)
        fromBoth == UpsertKeys(fromDb, code, source_keys, "shift", matched, requested, 1)
    IN  IF DOMAIN fromBoth = {}
        THEN FallbackCandidates(code, games_to_probe(matched), requested)
        ELSE fromBoth

RECURSIVE CandidatesPerRow(_, _, _, _, _, _, _)
\* the candidates made of each row of keys in turn, row after row
CandidatesPerRow(code, keys, origin, matched_games, requested, games, i) ==
    IF i > Len(keys) THEN <<>>
    ELSE order_candidates(UpsertKeys(<<>>, code, <<keys[i]>>, origin, matched_games,
                                     requested, 1), games)
           \o CandidatesPerRow(code, keys, origin, matched_games, requested, games, i + 1)

\* build_redemption_plan collecting the candidates in a list instead of the
\* dict keyed by (game, platform): every candidate made is kept
build_redemption_plan_NoMerge(code, requested, bypass_fail, db_keys, source_keys, redeemed_map, failed_map, now) ==
    LET matched == determine_matched_games(db_keys, source_keys)
        games == games_to_probe(matched)
        made == CandidatesPerRow(code, db_keys, "db", matched, requested, games, 1)
                  \o CandidatesPerRow(code, source_keys, "shift", matched, requested, games, 1)
        ordered == IF made = <<>>
                   THEN order_candidates(FallbackCandidates(code, games, requested), games)
                   ELSE made
        r == apply_skip_logic(ordered, redeemed_map, failed_map, now, bypass_fail)
    IN  [normalized_code |-> code,
         requested_platforms |-> requested,
         games |-> games,
         candidates |-> r.candidates,
         attempts |-> r.attempts,
         skipped |-> r.skipped,
         reward_hint |-> determine_reward_hint(ordered),
         db_had_code |-> Len(db_keys) > 0]

\* build_redemption_plan for a normalized code, given what the store and the
\* feed return for it
build_redemption_plan(code, requested, bypass_fail, db_keys, source_keys, redeemed_map, failed_map, now) ==
    LET matched == determine_matched_games(db_keys, source_keys)
        games == games_to_probe(matched)
        ordered == order_candidates(
                       merged_candidates(code, db_keys, source_keys, requested), games)
        r == apply_skip_logic(ordered, redeemed_map, failed_map, now, bypass_fail)
    IN  [normalized_code |-> code,
         requested_platforms |-> requested,
         games |-> games,
         candidates |-> r.candidates,
         attempts |-> r.attempts,
         skipped |-> r.skipped,
         reward_hint |-> determine_reward_hint(ordered),
         db_had_code |-> Len(db_keys) > 0]

\* what a call of query.parse_shift_orcicorn() does: it returns the records
\* of the feed, returns None, or raises
FeedReads == {"records", "none", "raise"}

\* _get_shift_dataset when the feed read returns: () for None
get_shift_dataset(feed_read, records) == IF feed_read = "none" THEN <<>> ELSE records

\* the number of _make_candidate calls of build_redemption_plan
candidates_made(code, requested, db_keys, source_keys) ==
    LET matched == determine_matched_games(db_keys, source_keys)
        games == games_to_probe(matched)
        made == Len(CandidatesPerRow(code, db_keys, "db", matched, requested, games, 1))
                  + Len(CandidatesPerRow(code, source_keys, "shift", matched, requested,
                                         games, 1))
    IN  IF made = 0 THEN Len(games) * Len(requested) ELSE made

\* the store operations of build_redemption_plan in call order: the read of
\* line 122, an ensure_key per candidate made (line 315) and the read of line
\* 232; none when line 118 or line 101 raises, the first only when the feed
\* read of line 123 raises
plan_accesses(normalized_code, requested, feed_read, made) ==
    IF normalized_code = NoneStr \/ requested = <<>> THEN <<>>
    ELSE IF feed_read = "raise" THEN <<"fetch_keys_for_code">>
    ELSE <<"fetch_keys_for_code">> \o [k \in 1..made |-> "ensure_key"]
            \o <<"fetch_outcomes_for_code">>

-----------------------------------------------------------------------------
(* The persistent store (query.db) at its interface                        *)

Triple(code, game, platform) == <<code, game, platform>>

\* query.db.fetch_keys_for_code: the rows stored under the code, in id order
fetch_keys_for_code(table, code) == SelectSeq(table, LAMBDA k : k.code = code)

\* query.db.fetch_outcomes_for_code: (redeemed_map, failed_map) keyed by
\* (game, platform)
fetch_outcomes_for_code(rows, code) ==
    [pr \in {<<t[2], t[3]>> : t \in {u \in DOMAIN rows : u[1] = code}} |->
        rows[Triple(code, pr[1], pr[2])]]

\* query.db.ensure_key for every candidate _make_candidate built: a row is
\* created for each (code, game, platform) that has none
ensure_keys(table, code, candidates) ==
    LET missing == [k \in 1..Len(AllPairs) |->
                       /\ AllPairs[k] \in DOMAIN candidates
                       /\ ~\E i \in 1..Len(table) :
                             /\ table[i].code = code
                             /\ table[i].game = AllPairs[k][1]
                             /\ table[i].platform = AllPairs[k][2]]
    IN  table \o SelectSeqIdx(
                    [k \in 1..Len(AllPairs) |->
                        IF missing[k]
                        THEN KeyRow(code, AllPairs[k][1], AllPairs[k][2],
                                    candidates[AllPairs[k]].reward, NoExpiry, "int:0")
                        ELSE NoneStr],
                    missing, 1)

\* query.db.set_redeemed(key, status_label, detail)
set_redeemed(rows, t, label) == (t :> [status |-> label]) @@ rows

\* query.db.record_failure(key, platform, label, detail)
record_failure(rows, t, label, detail) ==
    (t :> [status |-> label, detail |-> detail]) @@ rows

\* _load_source_matches: the feed records whose code normalizes to the code
load_source_matches(records, code) ==
    SelectSeq(records, LAMBDA k : NormalizedCode[k.code] # NoneStr
                                     /\ NormalizedCode[k.code] = code)

Bump(counter, t) ==
    IF t \in DOMAIN counter THEN [counter EXCEPT ![t] = @ + 1]
    ELSE (t :> 1) @@ counter

Count(counter, t) == IF t \in DOMAIN counter THEN counter[t] ELSE 0

-----------------------------------------------------------------------------
(* Statuses (shift.Status) and their handling in auto.py                   *)

Statuses == {"SUCCESS", "REDEEMED", "EXPIRED", "INVALID", "SLOWDOWN",
             "TRYLATER", "REDIRECT", "UNKNOWN", "NONE"}

\* status in (Status.SUCCESS, Status.REDEEMED)
is_positive_status(status) == status \in {"SUCCESS", "REDEEMED"}

\* _failure_label_for_status falling through to status.name for every status
failure_label_for_status_Name(status) == status

\* _failure_label_for_status
failure_label_for_status(status) ==
    CASE status = "EXPIRED" -> "EXPIRED"
      [] status = "INVALID" -> "INVALID"
      [] status = "SLOWDOWN" -> "RATELIMIT"
      [] status = "TRYLATER" -> "TRYLATER"
      [] status = "REDIRECT" -> "NETWORK_ERROR"
      [] status \in {"NONE", "UNKNOWN"} -> "UNKNOWN_ERROR"
      [] OTHER -> status

\* "key" in reward.lower()
is_key_reward(k) == k.reward \in {"Golden Key", "Diamond Key"}

\* r_golden_keys.match(reward)
is_golden(k) == k.reward \in {"Golden Key"}

\* _find_candidate: the candidate of the pair and its disposition
find_candidate(plan, game, platform) ==
    IF \E i \in 1..Len(plan.attempts) : Pair(plan.attempts[i]) = <<game, platform>>
    THEN [candidate |-> plan.attempts[CHOOSE i \in 1..Len(plan.attempts) :
                                        /\ Pair(plan.attempts[i]) = <<game, platform>>
                                        /\ \A j \in 1..(i - 1) :
                                              Pair(plan.attempts[j]) # <<game, platform>>],
          disposition |-> "attempt"]
    ELSE IF \E i \in 1..Len(plan.skipped) : Pair(plan.skipped[i]) = <<game, platform>>
    THEN [candidate |-> plan.skipped[CHOOSE i \in 1..Len(plan.skipped) :
                                        /\ Pair(plan.skipped[i]) = <<game, platform>>
                                        /\ \A j \in 1..(i - 1) :
                                              Pair(plan.skipped[j]) # <<game, platform>>],
          disposition |-> "skip"]
    ELSE [candidate |-> NoneStr, disposition |-> NoneStr]

\* an in-place update of a candidate object: it shows in every list of the
\* plan that holds the object
UpdateIn(list, c) ==
    [i \in 1..Len(list) |-> IF Pair(list[i]) = Pair(c) THEN c ELSE list[i]]

\* an update that files the candidate under plan.skipped once it has an
\* outcome
UpdateCandidate_Reclassified(plan, c) ==
    [plan EXCEPT !.candidates = UpdateIn(plan.candidates, c),
                 !.attempts = SelectSeq(plan.attempts, LAMBDA a : Pair(a) # Pair(c)),
                 !.skipped = SelectSeq(plan.skipped, LAMBDA a : Pair(a) # Pair(c))
                               \o <<c>>]

UpdateCandidate(plan, c) ==
    [plan EXCEPT !.candidates = UpdateIn(plan.candidates, c),
                 !.attempts = UpdateIn(plan.attempts, c),
                 !.skipped = UpdateIn(plan.skipped, c)]

-----------------------------------------------------------------------------
(* Bulk mode: the queues of one (game, platform) batch                     *)

\* the platforms of the modelled rows in sorted() order
PlatformSortOrder == <<"epic", "steam", "universal">>

\* the (game, platform) batches of a mapping, in iteration order
RECURSIVE Batches(_)
Batches(mapping) ==
    IF Len(mapping) = 0 THEN <<>>
    ELSE [i \in 1..Len(mapping[1].platforms) |->
             <<mapping[1].game, mapping[1].platforms[i]>>]
         \o Batches(Tail(mapping))

\* query_keys_with_mapping: all_keys[game][platform], the keys of the game
\* stored for the platform or for "universal", grouped in sorted platform
\* order, each with its platform set to the batch's
RECURSIVE KeysByPlatform(_, _, _, _)
KeysByPlatform(table, game, platform, i) ==
    IF i > Len(PlatformSortOrder) THEN <<>>
    ELSE (IF PlatformSortOrder[i] \in {platform, "universal"}
          THEN [j \in 1..Len(SelectSeq(table, LAMBDA k :
                        k.game = game /\ k.platform = PlatformSortOrder[i])) |->
                   [SelectSeq(table, LAMBDA k :
                        k.game = game /\ k.platform = PlatformSortOrder[i])[j]
                      EXCEPT !.platform = platform]]
          ELSE <<>>)
         \o KeysByPlatform(table, game, platform, i + 1)

query_keys_with_mapping(table, mapping) ==
    [b \in 1..Len(Batches(mapping)) |->
        KeysByPlatform(table, Batches(mapping)[b][1], Batches(mapping)[b][2], 1)]

\* the category lists of a batch that the mode puts in the base queue, in
\* priority order: golden keys, non-golden keys, codes
ModeLists(t_keys, a) ==
    LET golden == SelectSeq(t_keys, is_golden)
        nongolden == SelectSeq(t_keys, LAMBDA k : is_key_reward(k) /\ ~is_golden(k))
        codes == SelectSeq(t_keys, LAMBDA k : ~is_key_reward(k))
        other_only == a.other /\ ~a.golden /\ ~a.non_golden
    IN  IF a.golden /\ a.non_golden
        THEN <<golden, nongolden, IF a.other THEN codes ELSE <<>>>>
        ELSE IF other_only THEN <<<<>>, <<>>, codes>>
        ELSE IF a.golden THEN <<golden, <<>>, IF a.other THEN codes ELSE <<>>>>
        ELSE IF a.non_golden THEN <<<<>>, nongolden, IF a.other THEN codes ELSE <<>>>>
        ELSE <<golden, nongolden, codes>>

\* base_queue (lines 568-596)
BaseQueue(t_keys, a) ==
    ModeLists(t_keys, a)[1] \o ModeLists(t_keys, a)[2] \o ModeLists(t_keys, a)[3]

\* redeem_queue (lines 602-662): the per-category takes under the limit
RedeemQueue(t_keys, a) ==
    LET L == ModeLists(t_keys, a)
        g_take == Min(Len(L[1]), a.limit)
        ng_take == Min(Len(L[2]), Max(0, a.limit - g_take))
        c_take == Min(Len(L[3]), Max(0, a.limit - g_take - ng_take))
    IN  IF a.limit = 0 THEN <<>>
        ELSE IF a.limit > 0
        THEN SubSeq(L[1], 1, g_take) \o SubSeq(L[2], 1, ng_take) \o SubSeq(L[3], 1, c_take)
        ELSE BaseQueue(t_keys, a)

\* the belt-and-braces mode filter of lines 783-805: the key is skipped
ModeFiltered(key, a) ==
    LET other_only == a.other /\ ~a.golden /\ ~a.non_golden
    IN  IF a.golden /\ a.non_golden
        THEN ~(is_key_reward(key) \/ (a.other /\ ~is_key_reward(key)))
        ELSE IF other_only THEN is_key_reward(key)
        ELSE IF a.golden THEN ~(is_golden(key) \/ (a.other /\ ~is_key_reward(key)))
        ELSE IF a.non_golden
        THEN is_golden(key) \/ (~is_key_reward(key) /\ ~a.other)
        ELSE FALSE

\* the overflow refill without "overflow_index += 1"
Refill_SameKey(pending, overflow, base, attempted, lim) ==
    IF attempted + Len(pending) < lim /\ overflow < Len(base)
    THEN [pending_queue |-> Append(pending, base[overflow + 1]), overflow_index |-> overflow]
    ELSE [pending_queue |-> pending, overflow_index |-> overflow]

\* the overflow refill with the condition len(pending_queue) < lim
RECURSIVE Refill_IgnoresAttempts(_, _, _, _, _)
Refill_IgnoresAttempts(pending, overflow, base, attempted, lim) ==
    IF Len(pending) < lim /\ overflow < Len(base)
    THEN Refill_IgnoresAttempts(Append(pending, base[overflow + 1]), overflow + 1, base,
                                attempted, lim)
    ELSE [pending_queue |-> pending, overflow_index |-> overflow]

\* the overflow refill of lines 844-855: base_queue keys are appended while
\* attempted_count + len(pending_queue) < lim
RECURSIVE Refill(_, _, _, _, _)
Refill(pending, overflow, base, attempted, lim) ==
    IF attempted + Len(pending) < lim /\ overflow < Len(base)
    THEN Refill(Append(pending, base[overflow + 1]), overflow + 1, base, attempted, lim)
    ELSE [pending_queue |-> pending, overflow_index |-> overflow]

-----------------------------------------------------------------------------
(* Manual mode (m_redeem.py): context and key bookkeeping                  *)

\* _fetch_db_key: the "universal" row of the code if there is one, else the
\* newest row
fetch_db_key(table, code) ==
    LET idx == {i \in 1..Len(table) : table[i].code = code}
        uni == {i \in idx : table[i].platform = "universal"}
        pick == IF uni # {} THEN uni ELSE idx
    IN  table[CHOOSE i \in pick : \A j \in pick : j <= i]

\* _fetch_json_keys: the feed records whose normalized code is the code
fetch_json_keys(records, code) ==
    SelectSeq(records, LAMBDA k : NormalizedCode[k.code] = code)

\* _collect_code_metadata: (reward, resolved_game, db_had_code, json_metadata)
collect_code_metadata(table, records, code) ==
    IF Len(fetch_keys_for_code(table, code)) > 0
    THEN [reward |-> reward_value(fetch_db_key(table, code).reward),
          resolved_game |-> fetch_db_key(table, code).game,
          db_had_code |-> TRUE, json_metadata |-> <<>>]
    ELSE IF Len(fetch_json_keys(records, code)) > 0
    THEN [reward |-> reward_value(fetch_json_keys(records, code)[1].reward),
          resolved_game |-> fetch_json_keys(records, code)[1].game,
          db_had_code |-> FALSE, json_metadata |-> fetch_json_keys(records, code)]
    ELSE [reward |-> "Unknown", resolved_game |-> NoneStr,
          db_had_code |-> FALSE, json_metadata |-> <<>>]

\* _determine_games_to_probe
determine_games_to_probe(resolved_game) ==
    IF resolved_game # NoneStr /\ resolved_game \in SeqToSet(ALL_SUPPORTED_GAMES)
    THEN <<resolved_game>>
    ELSE ALL_SUPPORTED_GAMES

\* _build_manual_context
build_manual_context(table, records, code, platform_filter) ==
    LET meta == collect_code_metadata(table, records, code)
    IN  [code |-> code,
         resolved_game |-> meta.resolved_game,
         reward |-> meta.reward,
         games_to_probe |-> determine_games_to_probe(meta.resolved_game),
         platforms_to_probe |->
             IF Len(platform_filter) > 0
             THEN SelectSeq(platform_filter, LAMBDA q : q # "universal")
             ELSE SelectSeq(ALL_SUPPORTED_PLATFORMS, LAMBDA q : q # "universal"),
         db_had_code |-> meta.db_had_code,
         json_metadata |-> meta.json_metadata,
         base_id |-> 0]

\* a row as the INSERT statements of m_redeem.py create it
ManualRow(code, game, platform, reward) ==
    KeyRow(code, game, platform, reward, NoExpiry, NoneStr)

\* _ensure_base_key: the newest row of the code, seeded when there is none;
\* yields the table and the base row's id (its index)
ensure_base_key(table, ctx) ==
    LET idx == {i \in 1..Len(table) : table[i].code = ctx.code}
        meta == ctx.json_metadata
        fits == {i \in 1..Len(meta) : meta[i].platform \in SeqToSet(ctx.platforms_to_probe)}
        seed == IF fits # {} THEN meta[CHOOSE i \in fits : \A j \in fits : i <= j]
                ELSE meta[1]
        hasSeed == Len(meta) > 0
        reward == IF hasSeed THEN reward_value(seed.reward) ELSE reward_value(ctx.reward)
        game == IF hasSeed /\ seed.game \notin {NoneStr, ""} THEN seed.game
                ELSE IF ctx.resolved_game \notin {NoneStr, ""} THEN ctx.resolved_game
                ELSE "manual"
        platform == IF hasSeed /\ seed.platform \notin {NoneStr, ""}
                    THEN seed.platform ELSE "manual"
    IN  IF idx # {}
        THEN [table |-> table, base_id |-> CHOOSE i \in idx : \A j \in idx : j <= i]
        ELSE [table |-> Append(table, ManualRow(ctx.code, game, platform, reward)),
              base_id |-> Len(table) + 1]

\* _redeem_across_targets with the loops exchanged: platforms outer, games
\* inner
ManualTargets_PlatformMajor(ctx) ==
    [k \in 1..(Len(ctx.games_to_probe) * Len(ctx.platforms_to_probe)) |->
        <<ctx.games_to_probe[((k - 1) % Len(ctx.games_to_probe)) + 1],
          ctx.platforms_to_probe[((k - 1) \div Len(ctx.games_to_probe)) + 1]>>]

\* the targets of _redeem_across_targets: games outer, platforms inner
ManualTargets(ctx) ==
    [k \in 1..(Len(ctx.games_to_probe) * Len(ctx.platforms_to_probe)) |->
        <<ctx.games_to_probe[((k - 1) \div Len(ctx.platforms_to_probe)) + 1],
          ctx.platforms_to_probe[((k - 1) % Len(ctx.platforms_to_probe)) + 1]>>]

\* positive_platforms of _sync_manual_key_records
positive_platforms(res) ==
    LET first == [i \in 1..Len(res) |->
                     /\ is_positive_status(res[i].status)
                     /\ \A j \in 1..(i - 1) :
                           ~(is_positive_status(res[j].status)
                               /\ res[j].platform = res[i].platform)]
    IN  SelectSeqIdx([i \in 1..Len(res) |-> res[i].platform], first, 1)

\* metadata_lookup.get(platform) or universal_meta: the index of the chosen
\* feed record, 0 when there is none
chosen_meta(meta, platform) ==
    LET own == {i \in 1..Len(meta) : meta[i].platform = platform}
        uni == {i \in 1..Len(meta) : meta[i].platform = "universal"}
    IN  IF own # {} THEN CHOOSE i \in own : \A j \in own : j <= i
        ELSE IF uni # {} THEN CHOOSE i \in uni : \A j \in uni : j <= i
        ELSE 0

\* the (reward, platform, game) values _sync_manual_key_records writes, in
\* order: the metadata matches, then the unmatched platforms
sync_placements(ctx, res) ==
    LET pos == positive_platforms(res)
        meta == ctx.json_metadata
        game_of(g) == IF g \notin {NoneStr, ""} THEN g
                      ELSE IF ctx.resolved_game \notin {NoneStr, ""}
                      THEN ctx.resolved_game ELSE "manual"
        key_of(i) == IF meta[chosen_meta(meta, pos[i])].platform \notin {NoneStr, ""}
                     THEN meta[chosen_meta(meta, pos[i])].platform ELSE pos[i]
        matched == [i \in 1..Len(pos) |->
                       /\ chosen_meta(meta, pos[i]) # 0
                       /\ \A j \in 1..(i - 1) :
                             chosen_meta(meta, pos[j]) = 0 \/ key_of(j) # key_of(i)]
        unmatched == [i \in 1..Len(pos) |-> chosen_meta(meta, pos[i]) = 0]
        fromMeta == [i \in 1..Len(pos) |->
                        IF chosen_meta(meta, pos[i]) # 0
                        THEN [reward |-> reward_value(
                                  IF meta[chosen_meta(meta, pos[i])].reward
                                        \notin {NoneStr, ""}
                                  THEN meta[chosen_meta(meta, pos[i])].reward
                                  ELSE ctx.reward),
                              platform |-> key_of(i),
                              game |-> game_of(meta[chosen_meta(meta, pos[i])].game)]
                        ELSE [reward |-> reward_value(ctx.reward),
                              platform |-> pos[i],
                              game |-> game_of(NoneStr)]]
    IN  SelectSeqIdx(fromMeta, matched, 1) \o SelectSeqIdx(fromMeta, unmatched, 1)

\* _key_exists_in_db
key_exists_in_db(table, code, game, platform) ==
    \E i \in 1..Len(table) :
        table[i].code = code /\ table[i].game = game /\ table[i].platform = platform

RECURSIVE InsertPlacements(_, _, _, _)
InsertPlacements(table, code, placements, i) ==
    IF i > Len(placements) THEN table
    ELSE InsertPlacements(
            IF key_exists_in_db(table, code, placements[i].game, placements[i].platform)
            THEN table
            ELSE Append(table, ManualRow(code, placements[i].game,
                                         placements[i].platform, placements[i].reward)),
            code, placements, i + 1)

\* _sync_manual_key_records: the first placement updates the base row, the
\* others are inserted when absent
sync_manual_key_records(table, ctx, base_id, res) ==
    LET placements == sync_placements(ctx, res)
    IN  IF ctx.db_had_code \/ Len(placements) = 0 THEN table
        ELSE InsertPlacements(
                [table EXCEPT ![base_id].reward = placements[1].reward,
                              ![base_id].platform = placements[1].platform,
                              ![base_id].game = placements[1].game],
                ctx.code, placements, 2)

-----------------------------------------------------------------------------
(* Normalizer inputs: leading blanks, n alphanumerics with a separator     *)
(* after every g-th one, trailing dashes, trailing blanks.                 *)

MaxPad == 1

MaxShort == 5

MaxLong == 1

MaxGroup == 5

MaxTail == 5

AlnumPool == <<"a","B","3","d","E","f","7","H","i","J","k">>

Separators == {<<>>, <<"-">>, <<" ">>, <<".", "-">>}

AlnumAt(i) == AlnumPool[((i - 1) % Len(AlnumPool)) + 1]

Repeat(c, n) == [i \in 1..n |-> c]

RECURSIVE Grouped(_, _, _, _)
\* alphanumerics i..n, with sep after every g-th one but the last
Grouped(i, n, g, sep) ==
    IF i > n THEN <<>>
    ELSE <<AlnumAt(i)>>
         \o (IF i % g = 0 /\ i < n THEN sep ELSE <<>>)
         \o Grouped(i + 1, n, g, sep)

MakeRaw(lead, n, g, sep, tail, trail) ==
    Repeat(" ", lead) \o Grouped(1, n, g, sep) \o Repeat("-", tail) \o Repeat(" ", trail)

RawInputs ==
    {MakeRaw(lead, n, g, sep, tail, trail) :
        lead \in 0..MaxPad, n \in (CodeLen - MaxShort)..(CodeLen + MaxLong),
        g \in 1..MaxGroup, sep \in Separators,
        tail \in 0..MaxTail, trail \in 0..MaxPad}

NormInit ==
    /\ raw \in RawInputs
    /\ normalized = None
    /\ normalizedM = None
    /\ renormalized = None
    /\ npc = "input"

\* one call of each normalizer on raw, and of normalize_shift_code on its result
NormIdle ==
    /\ raw = <<>>
    /\ normalized = None
    /\ normalizedM = None
    /\ renormalized = None
    /\ npc = "idle"

Normalize ==
    /\ npc = "input"
    /\ normalized' = normalize_shift_code(raw)
    /\ normalizedM' = M_normalize_shift_code(raw)
    /\ renormalized' = normalize_shift_code(normalize_shift_code(raw))
    /\ npc' = "done"
    /\ UNCHANGED raw

NormNext == Normalize /\ UNCHANGED <<svars, uvars, bvars, fvars, rvars>>


-----------------------------------------------------------------------------
(* Classifier inputs: an ordered candidate list with distinct pairs, as    *)
(* _order_candidates returns it, and the two outcome maps of the store.    *)

MaxCands == 3

MaxOutcomeRows == 2

NowT == 2

PairSet == SeqToSet(AllPairs)

ExpiryChoices == {NoTime, NowT - 1, NowT, NowT + 1}

SuccessRows == {[status |-> "SUCCESS"]}

FailureRows == {[status |-> "INVALID", detail |-> "invalid code"]}

RECURSIVE CandidateList(_, _, _, _)
\* the candidates of the pairs with index in S, from index k on, in order
CandidateList(S, expiry, flag, k) ==
    IF k > Len(AllPairs) THEN <<>>
    ELSE (IF k \in S
          THEN <<RedemptionCandidate(CodeA, AllPairs[k][1], AllPairs[k][2],
                                     "Unknown", "db", expiry[k], flag[k])>>
          ELSE <<>>)
         \o CandidateList(S, expiry, flag, k + 1)

CandidateLists ==
    UNION {{CandidateList(S, expiry, flag, 1) :
                expiry \in [S -> ExpiryChoices], flag \in [S -> BOOLEAN]} :
           S \in {T \in SUBSET (1..Len(AllPairs)) : Cardinality(T) <= MaxCands}}

OutcomeMaps(rows) ==
    UNION {[D -> rows] : D \in {T \in SUBSET PairSet : Cardinality(T) <= MaxOutcomeRows}}

SkipInit ==
    /\ sCandidates \in CandidateLists
    /\ sRedeemed \in OutcomeMaps(SuccessRows)
    /\ sFailed \in OutcomeMaps(FailureRows)
    /\ Cardinality(DOMAIN sRedeemed) + Cardinality(DOMAIN sFailed) <= MaxOutcomeRows
    /\ sBypass \in BOOLEAN
    /\ sNow = NowT
    /\ sAttempts = <<>>
    /\ sSkipped = <<>>
    /\ spc = "input"

SkipIdle ==
    /\ sCandidates = <<>>
    /\ sRedeemed = <<>>
    /\ sFailed = <<>>
    /\ sBypass = FALSE
    /\ sNow = NowT
    /\ sAttempts = <<>>
    /\ sSkipped = <<>>
    /\ spc = "idle"

\* one call of _apply_skip_logic
ApplySkipLogic ==
    /\ spc = "input"
    /\ LET r == apply_skip_logic(sCandidates, sRedeemed, sFailed, sNow, sBypass)
       IN  /\ sAttempts' = r.attempts
           /\ sSkipped' = r.skipped
    /\ spc' = "done"
    /\ UNCHANGED <<sCandidates, sRedeemed, sFailed, sBypass, sNow>>

SkipNext == ApplySkipLogic /\ UNCHANGED <<nvars, uvars, bvars, fvars, rvars>>

-----------------------------------------------------------------------------
(* Merge inputs: two candidates of one (game, platform) key, upserted into *)
(* an empty dict in both orders                                            *)

MaxExpiry == 2

\* what a source record can carry: a reward (or none), an expiry (or none)
\* and an expired flag; a synthetic candidate carries none of them
MergeRecords ==
    {[origin |-> o, reward |-> r, expires |-> e, expired |-> x] :
        o \in {"db", "shift"}, r \in {"Golden Key", "Diamond Key", NoneStr},
        e \in {NoExpiry} \cup {ExpiryAt(t) : t \in 1..MaxExpiry},
        x \in {"bool:False", "bool:True"}}
      \cup {[origin |-> "fallback", reward |-> "Unknown", expires |-> NoExpiry,
              expired |-> "bool:False"]}

\* the candidate build_redemption_plan makes of a record for (bl3, epic)
MergeCandidate(rec) ==
    make_candidate(CodeA, "bl3", "epic", rec.reward, rec.origin,
                   CASE rec.origin = "db" -> "database"
                     [] rec.origin = "shift" -> "shift_source"
                     [] OTHER -> "fallback",
                   rec.expires, normalize_expired_flag(rec.expired))

UpsertInit ==
    /\ uFirst \in {MergeCandidate(rec) : rec \in MergeRecords}
    /\ uSecond \in {MergeCandidate(rec) : rec \in MergeRecords}
    /\ uMerged12 = NoneStr
    /\ uMerged21 = NoneStr
    /\ upc = "input"

UpsertIdle ==
    /\ uFirst = NoneStr
    /\ uSecond = NoneStr
    /\ uMerged12 = NoneStr
    /\ uMerged21 = NoneStr
    /\ upc = "off"

\* _upsert_candidate(candidates, a); _upsert_candidate(candidates, b), and
\* the same with b first
UpsertBoth ==
    /\ upc = "input"
    /\ uMerged12' = upsert_candidate(upsert_candidate(<<>>, uFirst), uSecond)[Pair(uFirst)]
    /\ uMerged21' = upsert_candidate(upsert_candidate(<<>>, uSecond), uFirst)[Pair(uFirst)]
    /\ upc' = "done"
    /\ UNCHANGED <<uFirst, uSecond>>

UpsertNext == UpsertBoth /\ UNCHANGED <<nvars, svars, bvars, fvars, rvars>>

-----------------------------------------------------------------------------
(* Resolver inputs: what the store and the feed hold for one code, the     *)
(* requested platforms and the outcomes recorded for the code              *)

MaxDbKeys == 2
MaxFeedKeys == 1

\* rows of the keys table stored under CodeA, in id order
DbPool ==
    << KeyRow(CodeA, "bl3", "epic", "Golden Key", NoExpiry, "bool:False"),
       KeyRow(CodeA, "bl3", "epic", NoneStr, ExpiryAt(NowT + 1), "bool:False"),
       KeyRow(CodeA, "bl3", "steam", "Golden Key", NoExpiry, "bool:False"),
       KeyRow(CodeA, "bl3", "universal", "Golden Key", NoExpiry, "bool:False"),
       KeyRow(CodeA, "bl4", "epic", "Skin", NoExpiry, "bool:False"),
       KeyRow(CodeA, "bl4", "universal", NoneStr, ExpiryAt(NowT - 1), "bool:False"),
       KeyRow(CodeA, "Borderlands 3", "steam", "Skin", NoExpiry, "bool:False"),
       KeyRow(CodeA, "Wonderlands", "epic", "Golden Key", NoExpiry, "bool:False"),
       KeyRow(CodeA, "bl3", "xbox", "Skin", NoExpiry, "bool:False"),
       KeyRow(CodeA, "bl3", "manual", "Golden Key", NoExpiry, "bool:False") >>

\* records of the remote feed whose code normalizes to CodeA
FeedPool ==
    << KeyRow(CodeA, "bl3", "universal", "Diamond Key", NoExpiry, "int:0"),
       KeyRow(CodeA, "bl3", "universal", "Diamond Key", ExpiryAt(NowT - 1), "int:0"),
       KeyRow(CodeA, "bl4", "universal", "Skin", NoExpiry, "int:0"),
       KeyRow(CodeA, "bl3", "steam", NoneStr, NoExpiry, "int:0"),
       KeyRow(CodeA, "Wonderlands", "universal", "Diamond Key", NoExpiry, "int:0"),
       KeyRow(CodeA, "bl4", "epic", "Diamond Key", NoExpiry, "int:1") >>

\* the subsequences of pool with at most n rows
SubSeqs(pool, n) ==
    {SelectSeqIdx(pool, [k \in 1..Len(pool) |-> k \in S], 1) :
        S \in {T \in SUBSET (1..Len(pool)) : Cardinality(T) <= n}}

TokenLists ==
    {<<>>, <<"epic">>, <<"steam", "epic">>, <<"universal">>, <<"manual">>,
     <<"steam", "bogus", "steam">>, <<"steam", "universal">>, <<"bogus">>}

\* the code argument: a code in normal form, or one that does not normalize
PlanCodes == {CodeA, CodeBad}

\* the outcomes recorded for the code, and the bypass_fail they are read with
OutcomeCases ==
    LET success == (<<"bl3", "epic">> :> CHOOSE row \in SuccessRows : TRUE)
        failure == (<<"bl3", "steam">> :> CHOOSE row \in FailureRows : TRUE)
    IN  {[redeemed |-> <<>>, failed |-> <<>>, bypass |-> FALSE],
         [redeemed |-> success, failed |-> <<>>, bypass |-> FALSE],
         [redeemed |-> <<>>, failed |-> failure, bypass |-> FALSE],
         [redeemed |-> <<>>, failed |-> failure, bypass |-> TRUE],
         [redeemed |-> success, failed |-> failure, bypass |-> FALSE]}

PlanInit ==
    /\ bCode \in PlanCodes
    /\ bTokens \in TokenLists
    /\ bFeedRead \in FeedReads
    /\ bDbKeys \in SubSeqs(DbPool, MaxDbKeys)
    /\ bSourceKeys \in SubSeqs(FeedPool, MaxFeedKeys)
    /\ bFeedRead # "records" => bSourceKeys = <<>>
    /\ \E oc \in OutcomeCases :
          /\ bRedeemed = oc.redeemed
          /\ bFailed = oc.failed
          /\ bBypass = oc.bypass
    /\ bPlan = NoneStr
    /\ bError = NoneStr
    /\ bAccess = <<>>
    /\ bpc = "input"

PlanIdle ==
    /\ bCode = NoneStr
    /\ bTokens = <<>>
    /\ bFeedRead = NoneStr
    /\ bDbKeys = <<>>
    /\ bSourceKeys = <<>>
    /\ bRedeemed = <<>>
    /\ bFailed = <<>>
    /\ bBypass = FALSE
    /\ bPlan = NoneStr
    /\ bError = NoneStr
    /\ bAccess = <<>>
    /\ bpc = "off"

\* build_redemption_plan leaves by an exception: no plan
PlanRaised(error) ==
    /\ bPlan' = bPlan
    /\ bError' = error
    /\ bpc' = "raised"

\* lines 122-200 for a code and platforms that passed lines 116-120
PlanBuilt(code, requested, source_keys) ==
    /\ bPlan' = build_redemption_plan(code, requested, bBypass, bDbKeys, source_keys,
                                      bRedeemed, bFailed, NowT)
    /\ bError' = bError
    /\ bpc' = "done"

\* build_redemption_plan(bCode, bTokens, bypass_fail=bBypass): the ValueError
\* of line 118 or of line 101, an exception of the feed read, or the plan
BuildPlan ==
    /\ bpc = "input"
    /\ IF NormalizedCode[bCode] = NoneStr
       THEN PlanRaised("InvalidCode")
       ELSE IF normalize_requested_platforms(bTokens) = <<>>
       THEN PlanRaised("NoSupportedPlatforms")
       ELSE IF bFeedRead = "raise"
       THEN PlanRaised("FeedError")
       ELSE PlanBuilt(NormalizedCode[bCode], normalize_requested_platforms(bTokens),
                      get_shift_dataset(bFeedRead, bSourceKeys))
    /\ bAccess' = plan_accesses(NormalizedCode[bCode],
                                normalize_requested_platforms(bTokens), bFeedRead,
                                candidates_made(CodeA, normalize_requested_platforms(bTokens),
                                                bDbKeys,
                                                get_shift_dataset(bFeedRead, bSourceKeys)))
    /\ UNCHANGED <<bCode, bTokens, bFeedRead, bDbKeys, bSourceKeys, bRedeemed, bFailed,
                   bBypass>>

PlanNext == BuildPlan /\ UNCHANGED <<nvars, svars, uvars, fvars, rvars>>

-----------------------------------------------------------------------------
(* The feed cache: the build_redemption_plan calls of one process, on an   *)
(* empty store, each for one of the codes                                  *)

MaxPlanCalls == 3

FeedCodes == {CodeA, CodeB, CodeBad}

\* @lru_cache(maxsize=1) before the first call that returned
EmptyCache == [cached |-> FALSE, value |-> <<>>]

FeedInit ==
    /\ fFeed \in SubSeqs(FeedPool, MaxFeedKeys)
    /\ dataset = EmptyCache
    /\ fParses = 0
    /\ fRaises = 0
    /\ fCalls = 0
    /\ fPlan = NoneStr
    /\ fpc = "run"

FeedIdle ==
    /\ fFeed = <<>>
    /\ dataset = EmptyCache
    /\ fParses = 0
    /\ fRaises = 0
    /\ fCalls = 0
    /\ fPlan = NoneStr
    /\ fpc = "off"

\* lines 122-200 on an empty store, with the cached or newly read dataset
PlanFromDataset(code, records) ==
    fPlan' = build_redemption_plan(code, ALL_SUPPORTED_PLATFORMS, FALSE, <<>>,
                                   load_source_matches(records, code), <<>>, <<>>, NowT)

\* a call of _get_shift_dataset that is not served from the lru_cache: the
\* parser is invoked; its result is cached unless it raised
ReadFeed(code, feed_read) ==
    /\ fParses' = fParses + 1
    /\ IF feed_read = "raise"
       THEN /\ fRaises' = fRaises + 1
            /\ dataset' = dataset
            /\ fPlan' = NoneStr
       ELSE /\ fRaises' = fRaises
            /\ dataset' = [cached |-> TRUE, value |-> get_shift_dataset(feed_read, fFeed)]
            /\ PlanFromDataset(code, get_shift_dataset(feed_read, fFeed))

\* build_redemption_plan(code, ALL_SUPPORTED_PLATFORMS) in a process whose
\* feed parser would now do feed_read
PlanCall ==
    /\ fpc = "run"
    /\ fCalls < MaxPlanCalls
    /\ fCalls' = fCalls + 1
    /\ \E code \in FeedCodes, feed_read \in FeedReads :
          IF NormalizedCode[code] = NoneStr
          THEN fPlan' = NoneStr /\ UNCHANGED <<dataset, fParses, fRaises>>
          ELSE IF dataset.cached
          THEN PlanFromDataset(code, dataset.value) /\ UNCHANGED <<dataset, fParses, fRaises>>
          ELSE ReadFeed(code, feed_read)
    /\ UNCHANGED <<fFeed, fpc>>

FeedNext == PlanCall /\ UNCHANGED <<nvars, svars, uvars, bvars, rvars>>

-----------------------------------------------------------------------------
(* Runs of main(): the store a process starts on, its command line, and    *)
(* the remote service's answers                                            *)

MaxRuns == 2

MaxKeys == 2

ThrottleEvery == 15

\* rows the keys table may hold when the process starts
KeyPool ==
    <<KeyRow(CodeA, "bl3", "epic", "Golden Key", NoExpiry, "int:0"),
      KeyRow(CodeA, "bl3", "epic", "Golden Key", ExpiryAt(NowT - 1), "int:0"),
      KeyRow(CodeA, "bl3", "universal", "Golden Key", NoExpiry, "int:0"),
      KeyRow(CodeB, "bl3", "steam", "Skin", NoExpiry, "int:0"),
      KeyRow(CodeBad, "bl3", "steam", "Skin", NoExpiry, "int:0")>>

Tables ==
    {SelectSeqIdx(KeyPool, [i \in 1..Len(KeyPool) |-> i \in S], 1) :
        S \in {T \in SUBSET (1..Len(KeyPool)) : Cardinality(T) <= MaxKeys}}

\* the records of the remote feed
Feed == <<KeyRow(CodeB, "bl3", "universal", "Diamond Key", NoExpiry, "int:0")>>

\* --redeem bl3:epic,steam
Mapping == <<[game |-> "bl3", platforms |-> <<"epic", "steam">>]>>

\* command lines of bulk runs: --bypass-fail, --limit, and the mode flags
ArgsSet ==
    {[bypass_fail |-> b, limit |-> l, golden |-> FALSE, non_golden |-> FALSE,
      other |-> FALSE, mapping |-> Mapping] : b \in BOOLEAN, l \in {1, 200}}
    \cup {[bypass_fail |-> FALSE, limit |-> 200, golden |-> TRUE,
           non_golden |-> FALSE, other |-> FALSE, mapping |-> Mapping]}

\* manual requests: (normalized code, platform filter); an empty filter is None
ManualRequests ==
    {[code |-> CodeA, platform_filter |-> <<"epic">>],
     [code |-> CodeB, platform_filter |-> <<>>]}

\* a code that neither the store nor the feed holds, with no platform filter:
\* every game is probed on every platform
UnknownCodeRequest == [code |-> ThrottleCodes[1], platform_filter |-> <<>>]

\* the requests made of a process; in the "probe" runs, the unknown code
ManualRequestsOf(svc) ==
    IF svc = "probe" THEN {UnknownCodeRequest} ELSE ManualRequests

\* what one client.redeem call does: returns a status, or raises
Responses == {"SUCCESS", "INVALID", "SLOWDOWN", "TRYLATER", "RAISE"}

\* a service that gives every status
FullResponses == Statuses \cup {"RAISE"}

\* a service that accepts every code
SteadyResponses == {"SUCCESS"}

ResponsesOf(svc) ==
    CASE svc = "full" -> FullResponses
      [] svc = "steady" -> SteadyResponses
      [] OTHER -> Responses

\* what the remote service would answer to the successive calls made for one
\* candidate
MaxCalls == 3

AnswerStreams == [1..MaxCalls -> Responses]

RECURSIVE retry_forgetful(_, _, _)
\* the retry loop without the slowdown_retry flag: every SLOWDOWN is retried
retry_forgetful(answers, i, slept) ==
    IF i > Len(answers) THEN [calls |-> answers, sleeps |-> slept, trace |-> <<>>]
    ELSE IF answers[i] = "SLOWDOWN"
    THEN [retry_forgetful(answers, i + 1, slept + 1) EXCEPT
             !.trace = <<"SLOWDOWN", "sleep">> \o @]
    ELSE [calls |-> SubSeq(answers, 1, i), sleeps |-> slept, trace |-> <<answers[i]>>]

retry_loop_Forgetful(answers) == retry_forgetful(answers, 1, 0)

\* the call of line 874 without the loop around it: no retry
retry_loop_NoRetry(answers) ==
    [calls |-> <<answers[1]>>, sleeps |-> 0, trace |-> <<answers[1]>>]

RECURSIVE retry_hasty(_, _, _)
\* the retry loop without the sleep(60) of line 882
retry_hasty(answers, i, slowdown_retry) ==
    IF i > Len(answers) THEN [calls |-> answers, sleeps |-> 0, trace |-> <<>>]
    ELSE IF answers[i] = "SLOWDOWN" /\ ~slowdown_retry
    THEN [retry_hasty(answers, i + 1, TRUE) EXCEPT !.trace = <<"SLOWDOWN">> \o @]
    ELSE [calls |-> SubSeq(answers, 1, i), sleeps |-> 0, trace |-> <<answers[i]>>]

retry_loop_Hasty(answers) == retry_hasty(answers, 1, FALSE)

RECURSIVE retry_from(_, _, _, _)
\* the "while True" loop of lines 873-891 from its i-th call on: the answers
\* to the calls it makes, the cooldowns it sleeps, and both in the order they
\* happen.  An exception of the call leaves the loop.
retry_from(answers, i, slowdown_retry, slept) ==
    IF i > Len(answers) THEN [calls |-> answers, sleeps |-> slept, trace |-> <<>>]
    ELSE IF answers[i] = "RAISE"
    THEN [calls |-> SubSeq(answers, 1, i), sleeps |-> slept, trace |-> <<"RAISE">>]
    ELSE IF answers[i] = "SLOWDOWN" /\ ~slowdown_retry
    THEN [retry_from(answers, i + 1, TRUE, slept + 1) EXCEPT
             !.trace = <<"SLOWDOWN", "sleep">> \o @]
    ELSE [calls |-> SubSeq(answers, 1, i), sleeps |-> slept, trace |-> <<answers[i]>>]

\* slowdown_retry = False; while True: ...
retry_loop(answers) == retry_from(answers, 1, FALSE, 0)

\* the runs of the retry loop over the answer streams
RetryRuns == {retry_loop(answers) : answers \in AnswerStreams}

\* the calls of the retry loop (lines 873-891): one, or two when the first
\* returned SLOWDOWN
ResponseSeqs == {run.calls : run \in RetryRuns}

RetryRunsFull == {retry_loop(answers) : answers \in [1..MaxCalls -> FullResponses]}

RetryRunsSteady == {retry_loop(answers) : answers \in [1..MaxCalls -> SteadyResponses]}

RetryRunsOf(svc) ==
    CASE svc = "full" -> RetryRunsFull
      [] svc = "steady" -> RetryRunsSteady
      [] OTHER -> RetryRuns

\* what a step did: its kind, the triple it dealt with, the answers of the
\* calls it made, for an attempt its final status and the candidate as the
\* step left it, and the answers and the sleeps of the step in the order they
\* happened
NoEvent == [kind |-> "none", triple |-> <<>>, statuses |-> <<>>,
            status |-> NoneStr, candidate |-> NoneStr, trace |-> <<>>]

Event(kind, triple, statuses) ==
    [kind |-> kind, triple |-> triple, statuses |-> statuses,
     status |-> NoneStr, candidate |-> NoneStr, trace |-> <<>>]

-----------------------------------------------------------------------------
(* Bulk mode: main()                                                       *)

\* the status the retry loop ends with: SLOWDOWN twice becomes TRYLATER
attempt_status_NoDowngrade(rs) == rs[Len(rs)]

attempt_status(rs) ==
    IF Len(rs) = 2 /\ rs[2] = "SLOWDOWN" THEN "TRYLATER" ELSE rs[Len(rs)]

\* if pair_id in processed_pairs: continue
never_processed(pair_id, processed) == FALSE

already_processed(pair_id, processed) == pair_id \in processed

\* candidate.should_record_preclassification = False
keep_preclassification(c) == c

clear_preclassification(c) == [c EXCEPT !.should_record_preclassification = FALSE]

\* the candidate bookkeeping after a success without lines 897-898
mark_redeemed_KeepFailure(c) == [c EXCEPT !.previously_redeemed = TRUE]

\* the candidate bookkeeping after a success (lines 896-898)
mark_redeemed(c) ==
    [c EXCEPT !.previously_redeemed = TRUE, !.previously_failed = NoneStr,
              !.failure_detail = NoneStr]

\* the candidate bookkeeping after a failure (lines 939-940)
mark_failed(c, label, detail) ==
    [c EXCEPT !.previously_failed = label, !.failure_detail = detail]

\* _load_plan: the cached plan of the code, or a new one built from the
\* store and the feed, with the identity rows its candidates ensure
load_plan(cache, table, records, redeemed, failed, code, bypass_fail) ==
    IF code \in DOMAIN cache
    THEN [plan |-> cache[code], cache |-> cache, table |-> table]
    ELSE LET db_keys == fetch_keys_for_code(table, code)
             source_keys == load_source_matches(records, code)
             plan == build_redemption_plan(code, ALL_SUPPORTED_PLATFORMS, bypass_fail,
                         db_keys, source_keys,
                         fetch_outcomes_for_code(redeemed, code),
                         fetch_outcomes_for_code(failed, code), NowT)
         IN  [plan |-> plan,
              cache |-> (code :> plan) @@ cache,
              table |-> ensure_keys(table, code,
                            merged_candidates(code, db_keys, source_keys,
                                              ALL_SUPPORTED_PLATFORMS))]

\* if status == Status.TRYLATER: return -- never taken
ends_run_Never(status) == FALSE

\* if status == Status.TRYLATER: return (auto.py 951-952, m_redeem.py 350-352)
ends_run(status) == status = "TRYLATER"

\* the history of a run starts empty
NewHistory(kind) ==
    /\ calls' = <<>>
    /\ attemptSteps' = <<>>
    /\ writes' = <<>>
    /\ sleeps' = 0
    /\ lastEvent' = Event(kind, <<>>, <<>>)

\* main() returns or dies: its locals are gone
LeaveBulk ==
    /\ pc' = "idle"
    /\ all_keys' = <<>>
    /\ batch' = 0
    /\ plan_cache' = <<>>
    /\ processed_pairs' = {}
    /\ base_queue' = <<>>
    /\ pending_queue' = <<>>
    /\ overflow_index' = 0
    /\ attempted_count' = 0

\* main() up to the batch loop (lines 484-526)
StartBulk ==
    /\ pc = "idle"
    /\ runs < MaxRuns
    /\ runs' = runs + 1
    /\ pc' = "batch"
    /\ all_keys' = query_keys_with_mapping(keysTable, args.mapping)
    /\ batch' = 0
    /\ plan_cache' = <<>>
    /\ processed_pairs' = {}
    /\ NewHistory("start_bulk")
    /\ UNCHANGED <<storevars, procvars, base_queue, pending_queue, overflow_index,
                   attempted_count, mtargets, context, results>>

\* the head of one (game, platform) batch (lines 528-768)
BeginBatch ==
    /\ pc = "batch"
    /\ batch < Len(all_keys)
    /\ LET t_keys == SelectSeq(all_keys[batch + 1], LAMBDA k : ~k.redeemed)
       IN  /\ base_queue' = BaseQueue(t_keys, args)
           /\ pending_queue' = RedeemQueue(t_keys, args)
           /\ overflow_index' = Len(RedeemQueue(t_keys, args))
           /\ pc' = IF Len(RedeemQueue(t_keys, args)) = 0 THEN "batch" ELSE "loop"
    /\ batch' = batch + 1
    /\ attempted_count' = 0
    /\ lastEvent' = Event("batch", <<>>, <<>>)
    /\ UNCHANGED <<storevars, procvars, runs, all_keys, plan_cache, processed_pairs,
                   mtargets, context, results, calls, attemptSteps, writes, sleeps>>

\* the batch loop is exhausted: main() returns
EndBulk ==
    /\ pc = "batch"
    /\ batch = Len(all_keys)
    /\ LeaveBulk
    /\ lastEvent' = Event("end_bulk", <<>>, <<>>)
    /\ UNCHANGED <<storevars, procvars, runs, mtargets, context, results,
                   calls, attemptSteps, writes, sleeps>>

\* the polite throttling of lines 775-780
throttled(count, status) ==
    (count # 0 /\ count % ThrottleEvery = 0) \/ status = "SLOWDOWN"

\* the sleeps the throttle adds at the head of the iteration (line 780)
throttle_sleeps_now == IF throttled(attempted_count, last_status) THEN 1 ELSE 0

\* the sleeps and answers of one iteration in order: the throttle of lines
\* 775-780 comes first
step_trace(throttle_sleeps, trace) == [k \in 1..throttle_sleeps |-> "sleep"] \o trace

\* an iteration that makes no remote call: what is left of it is the
\* throttle's sleep
Passed(kind, pair_id) ==
    [Event(kind, pair_id, <<>>) EXCEPT !.trace = step_trace(throttle_sleeps_now, <<>>)]

\* "continue": the loop goes on with the queue, or the batch is over
Continue(queue) ==
    /\ pending_queue' = queue
    /\ pc' = IF Len(queue) = 0 THEN "batch" ELSE "loop"
    /\ UNCHANGED <<all_keys, batch, base_queue>>

\* the mode filter of lines 783-805 skipped the key
FilteredKey(rest, pair_id) ==
    /\ Continue(rest)
    /\ lastEvent' = Passed("filtered", pair_id)
    /\ UNCHANGED <<storevars, last_status, plan_cache, processed_pairs,
                   overflow_index, attempted_count, calls, attemptSteps, writes>>

\* build_redemption_plan raises ValueError, which nothing catches
InvalidCode(pair_id) ==
    /\ LeaveBulk
    /\ lastEvent' = Event("invalid_code", pair_id, <<>>)
    /\ UNCHANGED <<storevars, last_status, calls, attemptSteps, writes>>

\* lines 812-816 (no candidate) and 857-858 (pair already processed)
PassOver(rest, pair_id, cache, table, kind) ==
    /\ Continue(rest)
    /\ keysTable' = table
    /\ plan_cache' = cache
    /\ lastEvent' = Passed(kind, pair_id)
    /\ UNCHANGED <<redeemedRows, failedRows, feed, last_status, processed_pairs,
                   overflow_index, attempted_count, calls, attemptSteps, writes>>

\* lines 817-856: the candidate is skipped; a preclassified expiry is
\* recorded once, and the queue is refilled under a positive limit
SkipCandidate(refill, pair_id, cache, table, candidate, target, record) ==
    /\ Continue(refill.pending_queue)
    /\ overflow_index' = refill.overflow_index
    /\ keysTable' = table
    /\ failedRows' =
           IF record
           THEN record_failure(failedRows, target,
                    IF candidate.preclassified_status # NoneStr
                    THEN candidate.preclassified_status ELSE "EXPIRED",
                    "Preclassified expiry from source metadata")
           ELSE failedRows
    /\ plan_cache' =
           IF record
           THEN [cache EXCEPT ![pair_id[1]] =
                    UpdateCandidate(@, clear_preclassification(candidate))]
           ELSE cache
    /\ writes' = IF record THEN Bump(writes, target) ELSE writes
    /\ processed_pairs' = processed_pairs \cup {pair_id}
    /\ lastEvent' = Passed(IF record THEN "preclassified" ELSE "skipped", pair_id)
    /\ UNCHANGED <<redeemedRows, feed, last_status, attempted_count, calls,
                   attemptSteps>>

\* an exception of client.redeem leaves redeem() and main()
AttemptRaised(target, rs, trace) ==
    /\ LeaveBulk
    /\ last_status' = IF Len(rs) = 2 THEN "SLOWDOWN" ELSE last_status
    /\ lastEvent' = [Event("raised", target, rs) EXCEPT !.trace = trace]
    /\ UNCHANGED <<redeemedRows, failedRows, writes>>

\* lines 893-952: the outcome of the attempt is stored
AttemptDone(rest, pair_id, cache, candidate, target, rs, status, label, trace) ==
    /\ redeemedRows' = IF is_positive_status(status)
                       THEN set_redeemed(redeemedRows, target, status)
                       ELSE redeemedRows
    /\ failedRows' = IF is_positive_status(status) THEN failedRows
                     ELSE record_failure(failedRows, target, label, status)
    /\ writes' = Bump(writes, target)
    /\ last_status' = status
    /\ lastEvent' = [Event("attempt", target, rs) EXCEPT
                        !.trace = trace,
                        !.status = status,
                        !.candidate = IF is_positive_status(status)
                                      THEN mark_redeemed(candidate)
                                      ELSE mark_failed(candidate, label, status)]
    /\ IF ends_run(status)
       THEN LeaveBulk
       ELSE /\ Continue(rest)
            /\ processed_pairs' = processed_pairs \cup {pair_id}
            /\ attempted_count' = attempted_count + 1
            /\ overflow_index' = overflow_index
            /\ plan_cache' =
                 [cache EXCEPT ![pair_id[1]] =
                    UpdateCandidate(@, IF is_positive_status(status)
                                       THEN mark_redeemed(candidate)
                                       ELSE mark_failed(candidate, label, status))]

\* lines 859-891: the attempt step, the remote call and its one retry
AttemptCandidate(rest, pair_id, cache, table, candidate, target, slept) ==
    \E run \in RetryRunsOf(service) :
        /\ keysTable' = table
        /\ feed' = feed
        /\ calls' = [Bump(calls, target) EXCEPT
                        ![target] = Count(calls, target) + Len(run.calls)]
        /\ attemptSteps' = Bump(attemptSteps, target)
        /\ sleeps' = slept + run.sleeps
        /\ IF run.calls[Len(run.calls)] = "RAISE"
           THEN AttemptRaised(target, run.calls, step_trace(slept - sleeps, run.trace))
           ELSE AttemptDone(rest, pair_id, cache, candidate, target, run.calls,
                            attempt_status(run.calls),
                            failure_label_for_status(attempt_status(run.calls)),
                            step_trace(slept - sleeps, run.trace))

\* lines 811-858: what the loop does with the candidate of the pair
WithCandidate(rest, pair_id, cache, table, candidate, disposition, slept) ==
    IF disposition = NoneStr
    THEN PassOver(rest, pair_id, cache, table, "no_candidate") /\ sleeps' = slept
    ELSE IF disposition = "skip"
    THEN /\ SkipCandidate(
                IF args.limit > 0
                THEN Refill(rest, overflow_index, base_queue, attempted_count, args.limit)
                ELSE [pending_queue |-> rest, overflow_index |-> overflow_index],
                pair_id, cache, table, candidate,
                Triple(candidate.code, candidate.game, candidate.platform),
                candidate.skip_reason = "expired"
                    /\ candidate.should_record_preclassification)
         /\ sleeps' = slept
    ELSE IF already_processed(pair_id, processed_pairs)
    THEN PassOver(rest, pair_id, cache, table, "seen") /\ sleeps' = slept
    ELSE AttemptCandidate(rest, pair_id, cache, table, candidate,
                          Triple(candidate.code, candidate.game, candidate.platform),
                          slept)

\* lines 810-811: the plan is loaded and the pair's candidate looked up
WithPlan(rest, pair_id, loaded, found, slept) ==
    WithCandidate(rest, pair_id, loaded.cache, loaded.table,
                  found.candidate, found.disposition, slept)

\* lines 808-810, for the normalized code of the key
WithCode(rest, normalized_code, game, platform, loaded, slept) ==
    WithPlan(rest, Triple(normalized_code, game, platform), loaded,
             find_candidate(loaded.plan, game, platform), slept)

\* lines 783-810
WithKey(key, rest, normalized_code, game, platform, slept) ==
    IF ModeFiltered(key, args)
    THEN FilteredKey(rest, Triple(normalized_code, game, platform)) /\ sleeps' = slept
    ELSE IF NormalizedCode[normalized_code] = NoneStr
    THEN InvalidCode(Triple(normalized_code, game, platform)) /\ sleeps' = slept
    ELSE WithCode(rest, normalized_code, game, platform,
                  load_plan(plan_cache, keysTable, feed, redeemedRows, failedRows,
                            normalized_code, args.bypass_fail),
                  slept)

\* normalize_shift_code(key.code) or key.code
normalized_or_raw(code) ==
    IF NormalizedCode[code] # NoneStr THEN NormalizedCode[code] ELSE code

\* one iteration of "while pending_queue" (lines 771-952)
ProcessKey ==
    /\ pc = "loop"
    /\ Len(pending_queue) > 0
    /\ WithKey(Head(pending_queue), Tail(pending_queue),
               normalized_or_raw(Head(pending_queue).code),
               Batches(args.mapping)[batch][1], Batches(args.mapping)[batch][2],
               sleeps + throttle_sleeps_now)
    /\ UNCHANGED <<args, service, runs, mtargets, context, results>>

-----------------------------------------------------------------------------
(* Manual mode: maybe_handle_manual_redeem                                 *)

\* the request is parsed, the context built and the base key ensured
StartManual ==
    /\ pc = "idle"
    /\ runs < MaxRuns
    /\ \E request \in ManualRequestsOf(service) :
        LET ctx == build_manual_context(keysTable, feed, request.code,
                                        request.platform_filter)
            base == ensure_base_key(keysTable, ctx)
        IN  /\ keysTable' = base.table
            /\ context' = [ctx EXCEPT !.base_id = base.base_id]
            /\ mtargets' = ManualTargets(ctx)
    /\ runs' = runs + 1
    /\ pc' = "manual"
    /\ results' = <<>>
    /\ NewHistory("start_manual")
    /\ UNCHANGED <<redeemedRows, failedRows, feed, procvars, all_keys, batch,
                   plan_cache, processed_pairs, base_queue, pending_queue,
                   overflow_index, attempted_count>>

\* what one redeem_cb call does in the manual loop: as client.redeem, or it
\* raises SystemExit
ManualResponsesOf(svc) ==
    IF svc = "steady" THEN ResponsesOf(svc) ELSE ResponsesOf(svc) \cup {"EXIT"}

\* lines 334-337 with SystemExit handled like any other exception
callback_propagates_Never(r) == FALSE

\* except SystemExit: raise
callback_propagates(r) == r = "EXIT"

\* lines 338-342: an exception becomes Status.UNKNOWN, else client.last_status
callback_status(r) == IF r \in {"RAISE", "EXIT"} THEN "UNKNOWN" ELSE r

\* SystemExit leaves _redeem_across_targets and the process: no result, no
\* _sync_manual_key_records
ManualExit(target, r) ==
    /\ calls' = Bump(calls, target)
    /\ pc' = "idle"
    /\ mtargets' = <<>>
    /\ results' = <<>>
    /\ lastEvent' = [Event("manual_exit", target, <<r>>) EXCEPT !.trace = <<r>>]
    /\ UNCHANGED <<redeemedRows, writes, last_status, sleeps>>

\* lines 342-352: the result is appended; SLOWDOWN sleeps, TRYLATER returns
ManualResult(target, r, status) ==
    /\ calls' = Bump(calls, target)
    /\ redeemedRows' = IF is_positive_status(status)
                       THEN set_redeemed(redeemedRows, target, status)
                       ELSE redeemedRows
    /\ writes' = IF is_positive_status(status) THEN Bump(writes, target)
                 ELSE writes
    /\ last_status' = status
    /\ results' = Append(results, [game |-> mtargets[1][1],
                                   platform |-> mtargets[1][2],
                                   status |-> status])
    /\ sleeps' = sleeps + (IF status = "SLOWDOWN" THEN 1 ELSE 0)
    /\ mtargets' = IF ends_run(status) THEN <<>> ELSE Tail(mtargets)
    /\ pc' = pc
    /\ lastEvent' = [Event("manual_attempt", target, <<r>>) EXCEPT
                        !.trace = IF status = "SLOWDOWN" THEN <<r, "sleep">> ELSE <<r>>]

\* one target of _redeem_across_targets (lines 324-352), with redeem()
ManualAttempt ==
    /\ pc = "manual"
    /\ Len(mtargets) > 0
    /\ \E r \in ManualResponsesOf(service) :
          IF callback_propagates(r)
          THEN ManualExit(Triple(context.code, mtargets[1][1], mtargets[1][2]), r)
          ELSE ManualResult(Triple(context.code, mtargets[1][1], mtargets[1][2]), r,
                            callback_status(r))
    /\ UNCHANGED <<keysTable, failedRows, feed, args, service, runs, all_keys, batch,
                   plan_cache, processed_pairs, base_queue, pending_queue,
                   overflow_index, attempted_count, context, attemptSteps>>

\* after the loop: _sync_manual_key_records, and the run is over
FinishManual ==
    /\ pc = "manual"
    /\ Len(mtargets) = 0
    /\ keysTable' = sync_manual_key_records(keysTable, context, context.base_id, results)
    /\ pc' = "idle"
    /\ results' = <<>>
    /\ lastEvent' = Event("end_manual", <<>>, <<>>)
    /\ UNCHANGED <<redeemedRows, failedRows, feed, procvars, runs, all_keys, batch,
                   plan_cache, processed_pairs, base_queue, pending_queue,
                   overflow_index, attempted_count, mtargets, context,
                   calls, attemptSteps, writes, sleeps>>

\* a process starts on one of the tables, with one of the command lines,
\* against a service of the given kind
RunInitWith(tables, argset, svc) ==
    /\ keysTable \in tables
    /\ redeemedRows = <<>>
    /\ failedRows = <<>>
    /\ feed = Feed
    /\ args \in argset
    /\ service = svc
    /\ last_status = "NONE"
    /\ pc = "idle"
    /\ runs = 0
    /\ all_keys = <<>>
    /\ batch = 0
    /\ plan_cache = <<>>
    /\ processed_pairs = {}
    /\ base_queue = <<>>
    /\ pending_queue = <<>>
    /\ overflow_index = 0
    /\ attempted_count = 0
    /\ mtargets = <<>>
    /\ context = NoneStr
    /\ results = <<>>
    /\ calls = <<>>
    /\ attemptSteps = <<>>
    /\ writes = <<>>
    /\ sleeps = 0
    /\ lastEvent = NoEvent

RunInit == RunInitWith(Tables, ArgsSet, "basic")

\* a store with one row, against a service that gives every status
StatusTables ==
    {<<KeyRow(CodeA, "bl3", "epic", "Golden Key", NoExpiry, "int:0")>>}

StatusArgs == {a \in ArgsSet : a.limit = 200 /\ ~a.golden}

StatusInit == RunInitWith(StatusTables, StatusArgs, "full")

\* a store of wildcard keys of distinct codes, half a throttle period and a
\* whole one plus one, against a service that accepts every code
ThrottleTable(n) ==
    [i \in 1..n |-> KeyRow(ThrottleCodes[i], "bl3", "universal", "Golden Key",
                           NoExpiry, "int:0")]

\* fourteen epic keys and three wildcard keys, the second of them a code the
\* epic rows hold already: in the epic batch the fifteenth attempt is followed
\* by a key whose pair was processed, and that by a new code
RepeatTable ==
    [i \in 1..(ThrottleEvery - 1) |->
        KeyRow(ThrottleCodes[i], "bl3", "epic", "Golden Key", NoExpiry, "int:0")]
    \o <<KeyRow(ThrottleCodes[ThrottleEvery], "bl3", "universal", "Golden Key",
                NoExpiry, "int:0"),
         KeyRow(ThrottleCodes[1], "bl3", "universal", "Golden Key", NoExpiry, "int:0"),
         KeyRow(ThrottleCodes[ThrottleEvery + 1], "bl3", "universal", "Golden Key",
                NoExpiry, "int:0")>>

ThrottleTables ==
    {ThrottleTable(ThrottleEvery \div 2 + 1), ThrottleTable(Len(ThrottleCodes)),
     RepeatTable}

ThrottleInit == RunInitWith(ThrottleTables, StatusArgs, "steady")

\* a store with one row and manual requests for a code it does not hold
ProbeInit == RunInitWith(StatusTables, StatusArgs, "probe")

\* a store of keys of distinct codes for one batch, some of them expired,
\* and a command line with --limit 2
LimitKeys == 4

LimitTable(E) ==
    [i \in 1..LimitKeys |->
        KeyRow(ThrottleCodes[i], "bl3", "epic", "Golden Key",
               IF i \in E THEN ExpiryAt(NowT - 1) ELSE NoExpiry, "int:0")]

LimitTables == {LimitTable(E) : E \in SUBSET (1..LimitKeys)}

LimitArgs ==
    {[bypass_fail |-> FALSE, limit |-> 2, golden |-> FALSE, non_golden |-> FALSE,
      other |-> FALSE, mapping |-> Mapping]}

LimitInit == RunInitWith(LimitTables, LimitArgs, "basic")

\* a store of a few keys of distinct codes for one batch, any of them
\* expired, with --limit 1 or --limit 2
LiveKeys == 2

LiveTable(E) ==
    [i \in 1..LiveKeys |->
        KeyRow(ThrottleCodes[i], "bl3", "epic", "Golden Key",
               IF i \in E THEN ExpiryAt(NowT - 1) ELSE NoExpiry, "int:0")]

LiveTables == {LiveTable(E) : E \in SUBSET (1..LiveKeys)}

LiveArgs == {a \in ArgsSet : ~a.bypass_fail /\ ~a.golden /\ a.limit = 1} \cup LimitArgs

LiveInit == RunInitWith(LiveTables, LiveArgs, "basic")

\* no process runs
RunIdle ==
    /\ keysTable = <<>>
    /\ redeemedRows = <<>>
    /\ failedRows = <<>>
    /\ feed = <<>>
    /\ args = NoneStr
    /\ service = NoneStr
    /\ last_status = "NONE"
    /\ pc = "off"
    /\ runs = 0
    /\ all_keys = <<>>
    /\ batch = 0
    /\ plan_cache = <<>>
    /\ processed_pairs = {}
    /\ base_queue = <<>>
    /\ pending_queue = <<>>
    /\ overflow_index = 0
    /\ attempted_count = 0
    /\ mtargets = <<>>
    /\ context = NoneStr
    /\ results = <<>>
    /\ calls = <<>>
    /\ attemptSteps = <<>>
    /\ writes = <<>>
    /\ sleeps = 0
    /\ lastEvent = NoEvent

Next ==
    \/ StartBulk /\ UNCHANGED <<nvars, svars, uvars, bvars, fvars>>
    \/ BeginBatch /\ UNCHANGED <<nvars, svars, uvars, bvars, fvars>>
    \/ ProcessKey /\ UNCHANGED <<nvars, svars, uvars, bvars, fvars>>
    \/ EndBulk /\ UNCHANGED <<nvars, svars, uvars, bvars, fvars>>
    \/ StartManual /\ UNCHANGED <<nvars, svars, uvars, bvars, fvars>>
    \/ ManualAttempt /\ UNCHANGED <<nvars, svars, uvars, bvars, fvars>>
    \/ FinishManual /\ UNCHANGED <<nvars, svars, uvars, bvars, fvars>>

-----------------------------------------------------------------------------
(* Claims about the normalizer (checked under SpecNorm)                    *)

AlnumCount(s) == Cardinality({i \in 1..Len(s) : IsAlnumChar(s[i])})

\* five blocks of five upper-case letters or digits, joined by dashes
WellFormedCode(s) ==
    /\ Len(s) = 29
    /\ \A i \in 1..Len(s) :
          IF i % 6 = 0 THEN s[i] = "-" ELSE s[i] \in UpperSet \cup Digits

\* C9: a raw string holding exactly 25 alphanumerics (plus any separators)
\* normalizes to five dashed upper-case blocks of five, normalizing the
\* result again returns it unchanged, and the redeem_logic and m_redeem
\* normalizers return the same value.
C9_NormalizeValid ==
    (npc = "done" /\ AlnumCount(raw) = CodeLen) =>
        /\ WellFormedCode(normalized)
        /\ renormalized = normalized
        /\ normalizedM = normalized

C9_Witness ==
    /\ npc = "done"
    /\ AlnumCount(raw) = CodeLen
    /\ Len(raw) > CodeLen + 4
    /\ \E i \in 1..Len(raw) : raw[i] \in LowerSet
    /\ \E i \in 1..Len(raw) : raw[i] = "."
    /\ WellFormedCode(normalized)

\* C10: the normalizer either rejects the input or returns a well-formed
\* code, and every input that does not hold exactly 25 alphanumerics is
\* rejected (25-character inputs containing dashes included).
C10_RejectOrWellFormed ==
    npc = "done" =>
        /\ normalized = None \/ WellFormedCode(normalized)
        /\ AlnumCount(raw) # CodeLen => normalized = None

-----------------------------------------------------------------------------
(* Claims about the classifier (checked under SpecSkip)                    *)

PairsOf(list) == [i \in 1..Len(list) |-> Pair(list[i])]

\* the candidates of list whose pair is in P, in list order
RestrictTo(list, P) == SelectSeq(list, LAMBDA c : Pair(c) \in P)

InList(list, pair) == \E i \in 1..Len(list) : Pair(list[i]) = pair

Entry(list, pair) == list[CHOOSE i \in 1..Len(list) : Pair(list[i]) = pair]

\* C2: a candidate whose pair has a persisted success outcome is in skipped
\* with skip_reason "redeemed" and not in attempts, for either bypass_fail.
C2_SuccessAlwaysSkipped ==
    spc = "done" =>
        \A i \in 1..Len(sCandidates) :
            Pair(sCandidates[i]) \in DOMAIN sRedeemed =>
                /\ InList(sSkipped, Pair(sCandidates[i]))
                /\ Entry(sSkipped, Pair(sCandidates[i])).skip_reason = "redeemed"
                /\ ~InList(sAttempts, Pair(sCandidates[i]))

C2_Witness ==
    /\ spc = "done"
    /\ sBypass
    /\ \E i \in 1..Len(sCandidates) :
          /\ Pair(sCandidates[i]) \in DOMAIN sRedeemed
          /\ sCandidates[i].expires_at = NowT - 1
          /\ InList(sSkipped, Pair(sCandidates[i]))
    /\ Len(sAttempts) > 0

\* the fields of a candidate that the classifier does not write
Identity(c) == <<c.code, c.game, c.platform, c.reward, c.origin,
                 c.expires_at, c.expired_flag, c.priority>>

\* C3: attempts and skipped are disjoint, together they hold every input
\* candidate exactly once, and each keeps the input order.
C3_Partition ==
    spc = "done" =>
        /\ SeqToSet(PairsOf(sAttempts)) \cap SeqToSet(PairsOf(sSkipped)) = {}
        /\ Len(sAttempts) + Len(sSkipped) = Len(sCandidates)
        /\ {Identity(sCandidates[i]) : i \in 1..Len(sCandidates)}
             = {Identity(sAttempts[i]) : i \in 1..Len(sAttempts)}
               \cup {Identity(sSkipped[i]) : i \in 1..Len(sSkipped)}
        /\ PairsOf(sAttempts)
             = PairsOf(RestrictTo(sCandidates, SeqToSet(PairsOf(sAttempts))))
        /\ PairsOf(sSkipped)
             = PairsOf(RestrictTo(sCandidates, SeqToSet(PairsOf(sSkipped))))

C3_Witness ==
    /\ spc = "done"
    /\ Len(sAttempts) > 0
    /\ Len(sSkipped) > 1
    /\ \E i \in 1..Len(sSkipped) : sSkipped[i].skip_reason = "failed"
    /\ \E i \in 1..Len(sSkipped) : sSkipped[i].skip_reason = "expired"

\* C4 as stated: with bypass_fail false, a candidate whose expiry timestamp
\* is at or before the classification time is in skipped with skip_reason
\* "expired" and preclassified_status "EXPIRED", whatever outcomes are
\* persisted for its pair.
C4_ExpiredAlwaysSkipped ==
    (spc = "done" /\ ~sBypass) =>
        \A i \in 1..Len(sCandidates) :
            (sCandidates[i].expires_at # NoTime /\ sCandidates[i].expires_at <= sNow) =>
                /\ InList(sSkipped, Pair(sCandidates[i]))
                /\ Entry(sSkipped, Pair(sCandidates[i])).skip_reason = "expired"
                /\ Entry(sSkipped, Pair(sCandidates[i])).preclassified_status = "EXPIRED"

\* C4 amended: the same for every such candidate whose pair has no
\* persisted success outcome, whatever failure outcome is persisted for it.
C4_ExpiredSkippedUnlessRedeemed ==
    (spc = "done" /\ ~sBypass) =>
        \A i \in 1..Len(sCandidates) :
            (/\ sCandidates[i].expires_at # NoTime
             /\ sCandidates[i].expires_at <= sNow
             /\ Pair(sCandidates[i]) \notin DOMAIN sRedeemed) =>
                /\ InList(sSkipped, Pair(sCandidates[i]))
                /\ ~InList(sAttempts, Pair(sCandidates[i]))
                /\ Entry(sSkipped, Pair(sCandidates[i])).skip_reason = "expired"
                /\ Entry(sSkipped, Pair(sCandidates[i])).preclassified_status = "EXPIRED"

C4_Witness ==
    /\ spc = "done"
    /\ ~sBypass
    /\ \E i \in 1..Len(sCandidates) :
          /\ sCandidates[i].expires_at = sNow
          /\ ~sCandidates[i].expired_flag
          /\ Pair(sCandidates[i]) \in DOMAIN sFailed
          /\ Pair(sCandidates[i]) \notin DOMAIN sRedeemed
          /\ InList(sSkipped, Pair(sCandidates[i]))
          /\ Entry(sSkipped, Pair(sCandidates[i])).skip_reason = "expired"

\* the outcome map without the row of pair
WithoutRow(map, pair) == [pr \in DOMAIN map \ {pair} |-> map[pr]]

\* C13: a persisted success outcome for one (game, platform) pair changes the
\* classification of that pair only: a candidate of that pair is in skipped
\* with skip_reason "redeemed", and every other candidate is classified as it
\* is without that success row (same list, same place, same fields).
C13_SuccessRowIsLocal ==
    spc = "done" =>
        \A q \in DOMAIN sRedeemed :
            LET without == apply_skip_logic(sCandidates, WithoutRow(sRedeemed, q),
                                            sFailed, sNow, sBypass)
            IN  /\ InList(sCandidates, q) =>
                      /\ InList(sSkipped, q)
                      /\ Entry(sSkipped, q).skip_reason = "redeemed"
                /\ RestrictTo(sAttempts, PairSet \ {q})
                      = RestrictTo(without.attempts, PairSet \ {q})
                /\ RestrictTo(sSkipped, PairSet \ {q})
                      = RestrictTo(without.skipped, PairSet \ {q})

\* one pair has a success row and is skipped as redeemed, while a candidate
\* of the same game on another platform is attempted and a third is skipped
\* for a reason of its own
C13_Witness ==
    /\ spc = "done"
    /\ \E q \in DOMAIN sRedeemed :
          /\ InList(sSkipped, q)
          /\ Entry(sSkipped, q).skip_reason = "redeemed"
          /\ \E i \in 1..Len(sAttempts) :
                sAttempts[i].game = q[1] /\ sAttempts[i].platform # q[2]
          /\ \E i \in 1..Len(sSkipped) :
                Pair(sSkipped[i]) # q /\ sSkipped[i].skip_reason \in {"failed", "expired"}

\* the candidate is expired at the classification time
ExpiredAt(c, now) == c.expired_flag \/ (c.expires_at # NoTime /\ c.expires_at <= now)

\* C24: with bypass_fail true, skipped holds exactly the candidates with a
\* persisted success outcome; every other candidate, expired or with a
\* persisted failure, is in attempts with skip_reason cleared, an expired one
\* carrying preclassified_status "EXPIRED" and should_record_preclassification
\* false.
C24_BypassSkipsOnlyRedeemed ==
    (spc = "done" /\ sBypass) =>
        /\ SeqToSet(PairsOf(sSkipped))
              = SeqToSet(PairsOf(sCandidates)) \cap DOMAIN sRedeemed
        /\ SeqToSet(PairsOf(sAttempts))
              = SeqToSet(PairsOf(sCandidates)) \ DOMAIN sRedeemed
        /\ \A i \in 1..Len(sAttempts) :
              /\ sAttempts[i].skip_reason = NoneStr
              /\ ExpiredAt(sAttempts[i], sNow) =>
                    /\ sAttempts[i].preclassified_status = "EXPIRED"
                    /\ ~sAttempts[i].should_record_preclassification

\* with bypass_fail true an expired candidate and a candidate with a
\* persisted failure are both attempted while a redeemed one is skipped
C24_Witness ==
    /\ spc = "done"
    /\ sBypass
    /\ Len(sSkipped) = 1
    /\ sSkipped[1].skip_reason = "redeemed"
    /\ \E i, j \in 1..Len(sAttempts) :
          /\ i # j
          /\ sAttempts[i].expires_at = NowT - 1
          /\ sAttempts[i].preclassified_status = "EXPIRED"
          /\ Pair(sAttempts[j]) \in DOMAIN sFailed
          /\ ~ExpiredAt(sAttempts[j], sNow)
          /\ sAttempts[j].previously_failed = "INVALID"

\* C26: with bypass_fail false, a candidate with no persisted success that
\* is expired and also has a persisted failure outcome is skipped with
\* skip_reason "expired", never "failed".
C26_ExpiryBeforeFailure ==
    (spc = "done" /\ ~sBypass) =>
        \A i \in 1..Len(sCandidates) :
            (/\ Pair(sCandidates[i]) \notin DOMAIN sRedeemed
             /\ ExpiredAt(sCandidates[i], sNow)
             /\ Pair(sCandidates[i]) \in DOMAIN sFailed) =>
                /\ InList(sSkipped, Pair(sCandidates[i]))
                /\ ~InList(sAttempts, Pair(sCandidates[i]))
                /\ Entry(sSkipped, Pair(sCandidates[i])).skip_reason = "expired"
                /\ \A j \in 1..Len(sSkipped) :
                      Pair(sSkipped[j]) = Pair(sCandidates[i])
                          => sSkipped[j].skip_reason # "failed"

\* a candidate flagged expired, without an expiry timestamp, has a stored
\* failure: it is skipped as expired, while a live candidate with a stored
\* failure is skipped as failed
C26_Witness ==
    /\ spc = "done"
    /\ ~sBypass
    /\ DOMAIN sRedeemed = {}
    /\ \E i, j \in 1..Len(sSkipped) :
          /\ sSkipped[i].expired_flag /\ sSkipped[i].expires_at = NoTime
          /\ Pair(sSkipped[i]) \in DOMAIN sFailed
          /\ sSkipped[i].skip_reason = "expired"
          /\ sSkipped[i].previously_failed = "INVALID"
          /\ Pair(sSkipped[j]) \in DOMAIN sFailed
          /\ sSkipped[j].skip_reason = "failed"

-----------------------------------------------------------------------------
(* Claims about the merge of candidates                                    *)

\* of two candidates, the one whose origin has priority
Winner(a, b) == IF ORIGIN_PRIORITY(a.origin) <= ORIGIN_PRIORITY(b.origin) THEN a ELSE b

\* C11: when two candidates of one (game, platform) key have different
\* origins, the merged entry is the candidate of the higher-priority origin
\* (db over shift over fallback) in either upsert order: its reward, expiry
\* and expired flag are that candidate's, and so is every other field.
C11_HigherPriorityWins ==
    (upc = "done" /\ uFirst.origin # uSecond.origin)
        => /\ uMerged12.reward = Winner(uFirst, uSecond).reward
           /\ uMerged12.expires_at = Winner(uFirst, uSecond).expires_at
           /\ uMerged12.expired_flag = Winner(uFirst, uSecond).expired_flag
           /\ uMerged12 = Winner(uFirst, uSecond)
           /\ uMerged21 = Winner(uFirst, uSecond)

\* a remote-feed candidate with a reward and an expiry is upserted first, a
\* persisted one with neither second: the entry has no reward and no expiry
C11_Witness ==
    /\ upc = "done"
    /\ uFirst.origin = "shift" /\ uFirst.reward = "Diamond Key" /\ uFirst.expires_at # NoTime
    /\ uSecond.origin = "db" /\ uSecond.reward = "Unknown" /\ uSecond.expires_at = NoTime
    /\ uMerged12.reward = "Unknown"
    /\ uMerged21.expires_at = NoTime

\* C23: when two records of the same origin target one (game, platform) pair,
\* the merged candidate has a known reward label if either record has one
\* and an expiry timestamp if either record has one, in either upsert order.
C23_TieKeepsRewardAndExpiry ==
    (upc = "done" /\ uFirst.origin = uSecond.origin) =>
        /\ (~IsUnknownReward(uFirst.reward) \/ ~IsUnknownReward(uSecond.reward))
              => (~IsUnknownReward(uMerged12.reward) /\ ~IsUnknownReward(uMerged21.reward))
        /\ (uFirst.expires_at # NoTime \/ uSecond.expires_at # NoTime)
              => (uMerged12.expires_at # NoTime /\ uMerged21.expires_at # NoTime)

\* a persisted row with an expiry and no reward is upserted first, one with
\* a reward and no expiry second: the entry has both, in either order
C23_Witness ==
    /\ upc = "done"
    /\ uFirst.origin = "db" /\ uSecond.origin = "db"
    /\ uFirst.reward = "Unknown" /\ uFirst.expires_at # NoTime
    /\ uSecond.reward = "Golden Key" /\ uSecond.expires_at = NoTime
    /\ uMerged12.reward = "Golden Key" /\ uMerged12.expires_at = uFirst.expires_at
    /\ uMerged21.reward = "Golden Key" /\ uMerged21.expires_at = uFirst.expires_at

\* C39 as stated: merging records of one origin for a (game, platform) pair
\* never clears an explicit expired flag: when the record merged first has
\* expired_flag true, the entry still has it after a second record of the
\* same origin is upserted.
C39_ExpiredFlagKept ==
    (upc = "done" /\ uFirst.origin = uSecond.origin /\ uFirst.expired_flag)
        => uMerged12.expired_flag

\* What the merge does: on a tie the entry takes the expired flag together
\* with the expiry, when it has no expiry and the later record has one;
\* else it keeps its own.
C39_FlagFollowsExpiry ==
    (upc = "done" /\ uFirst.origin = uSecond.origin) =>
        uMerged12.expired_flag =
            IF uFirst.expires_at = NoTime /\ uSecond.expires_at # NoTime
            THEN uSecond.expired_flag ELSE uFirst.expired_flag

\* a persisted row flagged expired with no expiry is merged first, a row
\* with an expiry and no flag second: the entry is no longer flagged, and it
\* is not expired before that expiry
C39_FlagCleared ==
    /\ upc = "done"
    /\ uFirst.origin = "db" /\ uSecond.origin = "db"
    /\ uFirst.expired_flag /\ uFirst.expires_at = NoTime
    /\ ~uSecond.expired_flag /\ uSecond.expires_at = MaxExpiry
    /\ ~uMerged12.expired_flag
    /\ ~expired_now(uMerged12, MaxExpiry - 1)

-----------------------------------------------------------------------------
(* Claims about the resolver                                               *)

\* the record is live at NowT: no expired flag, no expiry at or before NowT
LiveRecord(key) ==
    /\ ~normalize_expired_flag(key.expired)
    /\ parse_expiry(key.expires) = NoTime \/ parse_expiry(key.expires) > NowT

\* the store holds no row and no outcome for the code, and the feed holds
\* exactly one live wildcard record, for a registry game and with a reward
OneWildcardRecord ==
    /\ bDbKeys = <<>>
    /\ DOMAIN bRedeemed = {}
    /\ DOMAIN bFailed = {}
    /\ Len(bSourceKeys) = 1
    /\ canonical_platform(bSourceKeys[1].platform) = "universal"
    /\ normalize_game(bSourceKeys[1].game) # NoneStr
    /\ bSourceKeys[1].reward # NoneStr
    /\ LiveRecord(bSourceKeys[1])

\* C12: with no persisted rows and outcomes and one live wildcard feed record
\* for game g with reward r, the plan's attempts are exactly one candidate
\* (g, p) per requested platform p, each with reward r and origin shift, and
\* nothing is skipped.
C12_WildcardExpands ==
    (bpc = "done" /\ OneWildcardRecord)
        => /\ bPlan.skipped = <<>>
           /\ Len(bPlan.attempts) = Len(bPlan.requested_platforms)
           /\ \A p \in SeqToSet(bPlan.requested_platforms) :
                 \E i \in 1..Len(bPlan.attempts) : bPlan.attempts[i].platform = p
           /\ \A i \in 1..Len(bPlan.attempts) :
                 /\ bPlan.attempts[i].game = normalize_game(bSourceKeys[1].game)
                 /\ bPlan.attempts[i].platform \in SeqToSet(bPlan.requested_platforms)
                 /\ bPlan.attempts[i].reward = bSourceKeys[1].reward
                 /\ bPlan.attempts[i].origin = "shift"

\* the wildcard record of bl3 requested for steam and epic: two attempts
C12_Witness ==
    /\ bpc = "done"
    /\ OneWildcardRecord
    /\ bTokens = <<"steam", "epic">>
    /\ bSourceKeys[1].game = "bl3"
    /\ Len(bPlan.attempts) = 2
    /\ bPlan.attempts[1].reward = "Diamond Key"

\* the pairs a row yields candidates for, given the requested platforms
PairsOfRow(key, requested) ==
    IF normalize_game(key.game) = NoneStr THEN {}
    ELSE {<<normalize_game(key.game), plat>> :
             plat \in SeqToSet(expand_platforms(key.platform, requested))}

\* C14: no two entries of plan.candidates share a (game, platform) pair,
\* whatever persisted rows, feed records and fallbacks the plan is built of.
C14_OneCandidatePerPair ==
    bpc = "done" =>
        \A i, j \in 1..Len(bPlan.candidates) :
            Pair(bPlan.candidates[i]) = Pair(bPlan.candidates[j]) => i = j

\* two persisted rows and a feed record all yield a candidate for one pair
C14_Witness ==
    /\ bpc = "done"
    /\ Len(bDbKeys) = 2
    /\ Len(bSourceKeys) = 1
    /\ \E pr \in PairSet :
          /\ pr \in PairsOfRow(bDbKeys[1], bPlan.requested_platforms)
          /\ pr \in PairsOfRow(bDbKeys[2], bPlan.requested_platforms)
          /\ pr \in PairsOfRow(bSourceKeys[1], bPlan.requested_platforms)
          /\ InList(bPlan.candidates, pr)
    /\ Len(bPlan.candidates) = 2

\* the registry games the rows of either source name
MentionedGames ==
    {normalize_game(bDbKeys[i].game) : i \in 1..Len(bDbKeys)}
      \cup {normalize_game(bSourceKeys[i].game) : i \in 1..Len(bSourceKeys)}

\* no row of either source yields a candidate for a requested platform
NoRowYields ==
    /\ \A i \in 1..Len(bDbKeys) :
          PairsOfRow(bDbKeys[i], bPlan.requested_platforms) = {}
    /\ \A i \in 1..Len(bSourceKeys) :
          PairsOfRow(bSourceKeys[i], bPlan.requested_platforms) = {}

\* C20: when no persisted or feed record yields a candidate for the requested
\* platforms, the plan's candidates are exactly one fallback-origin candidate
\* with reward "Unknown" per pair of (games to probe) x (requested
\* platforms), the games to probe being the games either source names, or
\* every registry game when neither names one.
C20_FallbackCoversProduct ==
    (bpc = "done" /\ NoRowYields) =>
        LET probed == IF MentionedGames \ {NoneStr} = {}
                      THEN SeqToSet(ALL_SUPPORTED_GAMES)
                      ELSE MentionedGames \ {NoneStr}
            product == {<<g, plat>> : g \in probed,
                                      plat \in SeqToSet(bPlan.requested_platforms)}
        IN  /\ SeqToSet(bPlan.games) = probed
            /\ Len(bPlan.candidates) = Cardinality(product)
            /\ SeqToSet(PairsOf(bPlan.candidates)) = product
            /\ \A i \in 1..Len(bPlan.candidates) :
                  /\ bPlan.candidates[i].origin = "fallback"
                  /\ bPlan.candidates[i].reward = "Unknown"

\* the store has a steam row of bl3 only and epic is requested: the plan is
\* the one fallback candidate (bl3, epic)
C20_Witness ==
    /\ bpc = "done"
    /\ NoRowYields
    /\ MentionedGames = {"bl3"}
    /\ Len(bDbKeys) > 0
    /\ bPlan.requested_platforms = <<"epic">>
    /\ Len(bPlan.candidates) = 1
    /\ bPlan.candidates[1].origin = "fallback"

\* neither source names a registry game: every registry game is probed
C20_AllGamesProbed ==
    /\ bpc = "done"
    /\ NoRowYields
    /\ MentionedGames \ {NoneStr} = {}
    /\ Len(bSourceKeys) > 0
    /\ Len(bPlan.candidates) = Len(ALL_SUPPORTED_GAMES) * Len(bPlan.requested_platforms)

\* the place of a pair in the canonical game-major order
PairRank(pr) == CHOOSE k \in 1..Len(AllPairs) : AllPairs[k] = pr

\* the merged (game, platform) map the plan of the harness is ordered from
MergedMap == merged_candidates(CodeA, bDbKeys, bSourceKeys, bPlan.requested_platforms)

\* C21: plan.candidates is sorted by canonical game order and, within a game,
\* by canonical platform order, and it holds every candidate of the merged
\* (game, platform) map exactly once: none dropped, none padded.
C21_OrderedAndComplete ==
    bpc = "done" =>
        /\ \A i, j \in 1..Len(bPlan.candidates) :
              i < j => PairRank(Pair(bPlan.candidates[i])) < PairRank(Pair(bPlan.candidates[j]))
        /\ SeqToSet(PairsOf(bPlan.candidates)) = DOMAIN MergedMap
        /\ Len(bPlan.candidates) = Cardinality(DOMAIN MergedMap)
        /\ \A i \in 1..Len(bPlan.candidates) :
              Identity(bPlan.candidates[i]) = Identity(MergedMap[Pair(bPlan.candidates[i])])

\* a bl3 row is stored before a bl4 row and steam is requested before epic:
\* the plan lists bl4 first, and epic before steam within a game
C21_Witness ==
    /\ bpc = "done"
    /\ bTokens = <<"steam", "epic">>
    /\ Len(bDbKeys) = 2
    /\ normalize_game(bDbKeys[1].game) = "bl3"
    /\ normalize_game(bDbKeys[2].game) = "bl4"
    /\ Len(bPlan.candidates) >= 3
    /\ bPlan.candidates[1].game = "bl4"
    /\ \E i \in 1..(Len(bPlan.candidates) - 1) :
          /\ bPlan.candidates[i].game = bPlan.candidates[i + 1].game
          /\ bPlan.candidates[i].platform = "epic"
          /\ bPlan.candidates[i + 1].platform = "steam"

\* the pairs of the plan's candidates that were made of a record
RecordPairs == {Pair(bPlan.candidates[i]) :
                   i \in {k \in 1..Len(bPlan.candidates) :
                              bPlan.candidates[k].origin # "fallback"}}

\* every record of either source, persisted rows first
AllRecords == bDbKeys \o bSourceKeys

\* the pairs of a record of a registry game whose platform is one of markers
\* (one per requested platform) or a platform of its own (that platform when
\* it is requested, none otherwise)
ExpansionWith(key, markers) ==
    IF normalize_game(key.game) = NoneStr THEN {}
    ELSE {<<normalize_game(key.game), plat>> :
             plat \in IF key.platform \in markers
                      THEN SeqToSet(bPlan.requested_platforms)
                      ELSE {key.platform} \cap SeqToSet(bPlan.requested_platforms)}

\* the platform values that _canonical_platform maps to no platform
PlatformMarkers ==
    {"universal", "manual"}
        \cup {AllRecords[i].platform : i \in {k \in 1..Len(AllRecords) :
                   canonical_platform(AllRecords[k].platform) = NoneStr}}

\* C22 as stated: a "universal" record yields one candidate per requested
\* platform, any other record exactly its own platform when that platform is
\* requested and no candidate otherwise.
C22_OnlyUniversalExpands ==
    bpc = "done" =>
        RecordPairs = UNION {ExpansionWith(AllRecords[i], {"universal"}) :
                                i \in 1..Len(AllRecords)}

\* C22 amended: a record whose platform is "universal", "manual", missing or
\* not a platform name yields one candidate per requested platform; a record
\* with a platform of its own yields exactly that platform when it is
\* requested and no candidate otherwise.
C22_ExpansionByPlatform ==
    bpc = "done" =>
        RecordPairs = UNION {ExpansionWith(AllRecords[i], PlatformMarkers) :
                                i \in 1..Len(AllRecords)}

\* epic is requested; the store holds a steam row, which yields nothing, and
\* a row with the "manual" placeholder, which yields the epic candidate
C22_Witness ==
    /\ bpc = "done"
    /\ bPlan.requested_platforms = <<"epic">>
    /\ Len(bDbKeys) = 2
    /\ bSourceKeys = <<>>
    /\ bDbKeys[1].platform = "steam" /\ normalize_game(bDbKeys[1].game) = "bl3"
    /\ bDbKeys[2].platform = "manual"
    /\ RecordPairs = {<<"bl3", "epic">>}

\* the platforms the tokens of the request name: a registry platform names
\* itself, "universal" names every registry platform, anything else none
RecognisedPlatforms ==
    UNION {IF tok = "universal" THEN SeqToSet(ALL_SUPPORTED_PLATFORMS)
           ELSE {tok} \cap SeqToSet(ALL_SUPPORTED_PLATFORMS) : tok \in SeqToSet(bTokens)}

\* C29: for an empty request the requested platforms are all registry
\* platforms; otherwise they are the recognised platforms of the request, each
\* once and in registry order; a request that names no platform fails with
\* NoSupportedPlatforms; and a call that fails on the platforms or on the
\* format of the code has made no store operation.
C29_PlatformsNormalizedFirst ==
    /\ bpc = "done" =>
          /\ bTokens = <<>> => bPlan.requested_platforms = ALL_SUPPORTED_PLATFORMS
          /\ bTokens # <<>> =>
                /\ RecognisedPlatforms # {}
                /\ bPlan.requested_platforms
                     = SelectSeq(ALL_SUPPORTED_PLATFORMS,
                                 LAMBDA plat : plat \in RecognisedPlatforms)
    /\ (bpc \in {"done", "raised"} /\ bCode = CodeA /\ bTokens # <<>>
          /\ RecognisedPlatforms = {}) =>
          (bpc = "raised" /\ bError = "NoSupportedPlatforms")
    /\ bError = "NoSupportedPlatforms" => (bTokens # <<>> /\ RecognisedPlatforms = {})
    /\ (bpc \in {"done", "raised"} /\ bCode = CodeBad) =>
          (bpc = "raised" /\ bError = "InvalidCode")
    /\ bError \in {"NoSupportedPlatforms", "InvalidCode"} =>
          (bAccess = <<>> /\ bPlan = NoneStr)

\* a request of one unknown token for a code the store has rows of: the call
\* failed with NoSupportedPlatforms and made no store operation
C29_Witness ==
    /\ bpc = "raised"
    /\ bCode = CodeA
    /\ bTokens = <<"bogus">>
    /\ Len(bDbKeys) > 0
    /\ bError = "NoSupportedPlatforms"
    /\ bAccess = <<>>

\* a request in another order with a duplicate and an unknown token: the
\* platforms come out once each and in registry order
C29_Reordered ==
    /\ bpc = "done"
    /\ bTokens = <<"steam", "bogus", "steam">>
    /\ bPlan.requested_platforms = <<"steam">>

\* C30: when the read of the remote feed fails, by returning nothing or by
\* raising, build_redemption_plan for a valid code and request still returns
\* a plan: of candidates of the persisted rows when these yield any, of
\* synthetic candidates otherwise.
C30_FeedFailureStillPlans ==
    (bpc \in {"done", "raised"} /\ bFeedRead \in {"none", "raise"} /\ bCode = CodeA
       /\ normalize_requested_platforms(bTokens) # <<>>) =>
        /\ bpc = "done"
        /\ Len(bPlan.candidates) > 0
        /\ \A i \in 1..Len(bPlan.candidates) :
              bPlan.candidates[i].origin \in {"db", "fallback"}

\* the feed read raised while the store has rows of the code: no plan, and the
\* rows were read
C30_PlanningAborted ==
    /\ bpc = "raised"
    /\ bFeedRead = "raise"
    /\ bError = "FeedError"
    /\ Len(bDbKeys) > 0
    /\ bPlan = NoneStr
    /\ bAccess = <<"fetch_keys_for_code">>

\* a feed read that returns None is tolerated: the plan is of candidates of
\* the persisted rows or of synthetic ones
C30_NoneStillPlans ==
    (bpc \in {"done", "raised"} /\ bFeedRead = "none" /\ bCode = CodeA
       /\ normalize_requested_platforms(bTokens) # <<>>) =>
        /\ bpc = "done"
        /\ Len(bPlan.candidates) > 0
        /\ \A i \in 1..Len(bPlan.candidates) :
              bPlan.candidates[i].origin \in {"db", "fallback"}

\* the feed read returned None: the plan is built without the feed
C30_NoneTolerated ==
    /\ bpc = "done"
    /\ bFeedRead = "none"
    /\ Len(bPlan.candidates) > 0

-----------------------------------------------------------------------------
(* Claims about runs (checked under Spec)                                  *)

\* a step made a remote call for the triple
CalledIn(t) == Count(calls', t) > Count(calls, t)

\* C1: once a success outcome is recorded for a (code, game, platform)
\* triple, no later step of any run, bulk or manual, makes the remote
\* call for that triple.
C1_NoCallAfterSuccess ==
    [][\A t \in DOMAIN redeemedRows : ~CalledIn(t)]_vars

\* The bulk loop alone keeps C1: a step of main() never calls for a triple
\* with a recorded success.
BulkNoCallAfterSuccess ==
    [][pc = "loop" => \A t \in DOMAIN redeemedRows : ~CalledIn(t)]_vars

\* C5: within one bulk run a (normalized code, game, platform) triple is
\* taken through the attempt step at most once, and so is called at most
\* twice (the call and its one retry), however often its keys are queued.
C5_AttemptedAtMostOnce ==
    /\ \A t \in DOMAIN attemptSteps : attemptSteps[t] <= 1
    /\ \A t \in DOMAIN calls : calls[t] <= 2

\* a queued key met a pair the run had already attempted, and was passed over
C5_Witness ==
    /\ lastEvent.kind = "seen"
    /\ Count(attemptSteps, lastEvent.triple) = 1

\* C6: within one run at most one outcome row (success, failure or
\* preclassified expiry) is written for any (code, game, platform) triple.
C6_OneOutcomePerTriple ==
    \A t \in DOMAIN writes : writes[t] <= 1

\* a second key of a pair whose preclassified expiry the run has recorded
C6_Witness ==
    /\ lastEvent.kind = "skipped"
    /\ Count(writes, lastEvent.triple) = 1
    /\ lastEvent.triple \in DOMAIN failedRows
    /\ failedRows[lastEvent.triple].status = "EXPIRED"

SlowdownTwice ==
    lastEvent.kind = "attempt" /\ lastEvent.statuses = <<"SLOWDOWN", "SLOWDOWN">>

\* C7: when the remote call returns SLOWDOWN for a candidate and SLOWDOWN
\* again on its retry, the outcome recorded for the candidate is a failure
\* labeled TRYLATER, no success is written for it, the run is over, and no
\* remote call is made until another run starts.
C7_SlowdownTwiceEndsRun ==
    /\ [](SlowdownTwice =>
            /\ lastEvent.triple \in DOMAIN failedRows
            /\ failedRows[lastEvent.triple].status = "TRYLATER"
            /\ Count(calls, lastEvent.triple) = 2
            /\ Count(writes, lastEvent.triple) = 1
            /\ last_status = "TRYLATER"
            /\ pc = "idle")
    /\ [][SlowdownTwice => (calls' = calls \/ runs' = runs + 1)]_vars

\* SLOWDOWN twice on the first key of a run whose store holds keys of
\* another code that were not reached
C7_Witness ==
    /\ SlowdownTwice
    /\ failedRows[lastEvent.triple].status = "TRYLATER"
    /\ \E i \in 1..Len(keysTable) :
          /\ keysTable[i].code \notin {lastEvent.triple[1], CodeBad}
          /\ \A t \in DOMAIN calls : t[1] # keysTable[i].code

\* the last step made a remote call that returned TRYLATER
TryLaterReturned ==
    /\ lastEvent.kind \in {"attempt", "manual_attempt"}
    /\ lastEvent.statuses[Len(lastEvent.statuses)] = "TRYLATER"

\* C15: in the bulk loop and in the manual loop, once a remote call returns
\* TRYLATER the run makes no further remote call: the loop is left at once,
\* the rest of the batch and the later batches stay unattempted, and the
\* next call is made by another run.
C15_TryLaterEndsCalls ==
    /\ [](TryLaterReturned =>
            \/ pc = "idle"
            \/ pc = "manual" /\ mtargets = <<>>)
    /\ [][TryLaterReturned => (calls' = calls \/ runs' = runs + 1)]_vars
    /\ [][(pc = "idle" \/ (pc = "manual" /\ mtargets = <<>>))
            => (calls' = calls \/ runs' = runs + 1)]_vars

\* TRYLATER on the first call of a bulk run whose store holds keys of
\* another code, which the run never calls for
C15_Witness ==
    /\ lastEvent.kind = "attempt"
    /\ lastEvent.statuses = <<"TRYLATER">>
    /\ pc = "idle"
    /\ \A t \in DOMAIN calls : t = lastEvent.triple
    /\ \E i \in 1..Len(keysTable) :
          keysTable[i].code \notin {lastEvent.triple[1], CodeBad}

\* TRYLATER on the first target of a manual run that has two targets
C15_ManualStopped ==
    /\ lastEvent.kind = "manual_attempt"
    /\ lastEvent.statuses = <<"TRYLATER">>
    /\ Len(results) = 1
    /\ Len(ManualTargets(context)) > 1
    /\ mtargets = <<>>

\* the step took a candidate through the attempt step of the bulk loop
AttemptStep ==
    \E t \in DOMAIN attemptSteps' : Count(attemptSteps', t) > Count(attemptSteps, t)

\* C17: in the bulk loop the remote call is made at most twice for one
\* candidate; it is made a second time exactly when the first call returned
\* SLOWDOWN, after one cooldown, and never a third time.
C17_OneRetryAfterSlowdown ==
    /\ [](lastEvent.kind \in {"attempt", "raised"} =>
            /\ Len(lastEvent.statuses) \in {1, 2}
            /\ Len(lastEvent.statuses) = 2 <=> lastEvent.statuses[1] = "SLOWDOWN"
            /\ Count(calls, lastEvent.triple) = Len(lastEvent.statuses))
    /\ [][AttemptStep =>
            sleeps' - sleeps - (IF throttled(attempted_count, last_status) THEN 1 ELSE 0)
                = Len(lastEvent'.statuses) - 1]_vars

\* a candidate whose first call returned SLOWDOWN and whose retry succeeded
C17_Witness ==
    /\ lastEvent.kind = "attempt"
    /\ lastEvent.statuses = <<"SLOWDOWN", "SUCCESS">>
    /\ Count(calls, lastEvent.triple) = 2
    /\ sleeps = 1
    /\ lastEvent.triple \in DOMAIN redeemedRows

\* the failure label of each negative status
FailureLabels ==
    [status \in Statuses \ {"SUCCESS", "REDEEMED"} |->
        CASE status = "EXPIRED" -> "EXPIRED"
          [] status = "INVALID" -> "INVALID"
          [] status = "SLOWDOWN" -> "RATELIMIT"
          [] status = "TRYLATER" -> "TRYLATER"
          [] status = "REDIRECT" -> "NETWORK_ERROR"
          [] status = "UNKNOWN" -> "UNKNOWN_ERROR"
          [] status = "NONE" -> "UNKNOWN_ERROR"]

\* the last step was an attempt of the bulk loop that ended with a status
AttemptEnded == lastEvent.kind = "attempt"

\* C18: after an attempt with a negative final status the store holds a
\* failure row for the candidate whose label is the one the fixed mapping
\* gives for the status, and the candidate's previously_failed is that label.
C18_FailureLabelled ==
    (AttemptEnded /\ lastEvent.status \notin {"SUCCESS", "REDEEMED"}) =>
        /\ lastEvent.status \in DOMAIN FailureLabels
        /\ lastEvent.triple \in DOMAIN failedRows
        /\ failedRows[lastEvent.triple].status = FailureLabels[lastEvent.status]
        /\ lastEvent.candidate.previously_failed = FailureLabels[lastEvent.status]
        /\ pc = "loop" =>
              Entry(plan_cache[lastEvent.triple[1]].candidates,
                    <<lastEvent.triple[2], lastEvent.triple[3]>>).previously_failed
                  = FailureLabels[lastEvent.status]

\* the call was redirected: the row and the candidate say NETWORK_ERROR
C18_Witness ==
    /\ AttemptEnded
    /\ lastEvent.statuses = <<"REDIRECT">>
    /\ failedRows[lastEvent.triple].status = "NETWORK_ERROR"
    /\ lastEvent.candidate.previously_failed = "NETWORK_ERROR"

\* the step was an attempt of the bulk loop that ended with a positive status
PositiveAttempt ==
    /\ AttemptStep
    /\ lastEvent'.kind = "attempt"
    /\ lastEvent'.status \in {"SUCCESS", "REDEEMED"}

\* C19: an attempt of the bulk loop that ends with SUCCESS or REDEEMED
\* stores a success outcome for the candidate and writes no failure row,
\* leaves the candidate with previously_redeemed set and previously_failed
\* and failure_detail cleared, and goes on with the next queued key.
C19_SuccessBookkeeping ==
    [][PositiveAttempt =>
        /\ lastEvent'.triple \in DOMAIN redeemedRows'
        /\ redeemedRows'[lastEvent'.triple].status = lastEvent'.status
        /\ failedRows' = failedRows
        /\ lastEvent'.candidate.previously_redeemed
        /\ lastEvent'.candidate.previously_failed = NoneStr
        /\ lastEvent'.candidate.failure_detail = NoneStr
        /\ Entry(plan_cache'[lastEvent'.triple[1]].candidates,
                 <<lastEvent'.triple[2], lastEvent'.triple[3]>>) = lastEvent'.candidate
        /\ pending_queue' = Tail(pending_queue)
        /\ pc' \in {"loop", "batch"}]_vars

\* under --bypass-fail a candidate with a failure row of an earlier run is
\* attempted again and answered REDEEMED: its failure bookkeeping is cleared
C19_Witness ==
    /\ AttemptEnded
    /\ lastEvent.statuses = <<"REDEEMED">>
    /\ lastEvent.triple \in DOMAIN failedRows
    /\ lastEvent.triple \in DOMAIN redeemedRows
    /\ lastEvent.candidate.previously_failed = NoneStr
    /\ args.bypass_fail

\* the attempts made so far in the run (a triple is attempted once, C5)
RunAttempts == Cardinality({t \in DOMAIN attemptSteps : attemptSteps[t] > 0})

\* C16 as stated: the throttle counts the attempts of the whole bulk run,
\* over all (game, platform) batches, and pauses after every 15 of them
\* before the next remote call: by the time n attempts are made the run has
\* paused at least (n - 1) \div 15 times, so no 16 attempts go by without
\* a pause.
C16_ThrottleCountsRun ==
    pc \in {"loop", "batch"} => sleeps >= (RunAttempts - 1) \div ThrottleEvery

\* What the loop does: it counts the attempts of the current batch, and an
\* attempt made when that count is a positive multiple of 15 is preceded by
\* a pause in the same iteration.
BatchThrottlePauses ==
    [][(AttemptStep /\ attempted_count > 0 /\ attempted_count % ThrottleEvery = 0)
        => sleeps' > sleeps]_vars

\* the sixteenth attempt of a batch was made, after one pause
BatchThrottleReached ==
    /\ pc \in {"loop", "batch"}
    /\ attempted_count = ThrottleEvery + 1
    /\ sleeps = 1

\* the last iteration dequeued a key, made no remote call, and slept for the
\* attempt counter
PausedWithoutCall ==
    /\ pc = "loop"
    /\ lastEvent.kind \in {"filtered", "no_candidate", "seen", "skipped", "preclassified"}
    /\ lastEvent.trace = <<"sleep">>
    /\ last_status # "SLOWDOWN"

\* C38 as stated: within a batch the attempt counter makes the loop pause at
\* most once between two consecutive candidates that get a remote call,
\* however many keys are dequeued without a call between them: after an
\* iteration that paused for the counter and made no call, the iteration of
\* the next attempt does not pause again.
C38_OnePauseBetweenAttempts ==
    [][(PausedWithoutCall /\ AttemptStep) => sleeps' = sleeps]_vars

\* What the loop does: the counter is tested at every dequeue and advanced
\* only by an attempt, so every key dequeued while it stands at a positive
\* multiple of 15 pauses, with or without a remote call.
C38_PauseAtEveryDequeue ==
    [][(pc = "loop" /\ attempted_count > 0 /\ attempted_count % ThrottleEvery = 0
        /\ lastEvent'.kind \notin {"invalid_code"})
        => sleeps' >= sleeps + 1]_vars

\* two pauses were made since the fifteenth attempt of the batch, and the
\* sixteenth attempt follows them
C38_PausedTwice ==
    /\ attempted_count = ThrottleEvery + 1
    /\ sleeps = 2
    /\ lastEvent.kind = "attempt"
    /\ lastEvent.trace = <<"sleep", "SUCCESS">>

\* C8: when the remote call raises in the bulk loop, a failure outcome
\* labeled UNKNOWN_ERROR is recorded for the candidate and the loop goes on.
C8_ExceptionRecorded ==
    lastEvent.kind = "raised" =>
        /\ lastEvent.triple \in DOMAIN failedRows
        /\ failedRows[lastEvent.triple].status = "UNKNOWN_ERROR"
        /\ pc \in {"loop", "batch"}

\* the candidates of the plans the bulk run has loaded, with their triples
CachedCandidates ==
    UNION {{[triple |-> Triple(code, plan_cache[code].candidates[i].game,
                               plan_cache[code].candidates[i].platform),
             candidate |-> plan_cache[code].candidates[i],
             skipped |-> InList(plan_cache[code].skipped,
                                Pair(plan_cache[code].candidates[i])),
             attempted |-> InList(plan_cache[code].attempts,
                                  Pair(plan_cache[code].candidates[i]))] :
               i \in 1..Len(plan_cache[code].candidates)} :
           code \in DOMAIN plan_cache}

\* the triple has a failure outcome that was stored before this run, and no
\* success outcome
FailedBeforeRun(t) ==
    /\ t \in DOMAIN failedRows
    /\ Count(writes, t) = 0
    /\ t \notin DOMAIN redeemedRows

\* C25: in a bulk run with bypass_fail false, a candidate that is not expired
\* and has a persisted failure outcome and no persisted success is in
\* skipped, not in attempts, with skip_reason "failed" and the stored failure
\* label and detail in previously_failed and failure_detail; and the run
\* makes no remote call for a candidate it skips as "failed".
C25_FailedSkippedNotCalled ==
    (pc \in {"loop", "batch"} /\ ~args.bypass_fail) =>
        \A e \in CachedCandidates :
            /\ (FailedBeforeRun(e.triple) /\ ~ExpiredAt(e.candidate, NowT)) =>
                  /\ e.skipped /\ ~e.attempted
                  /\ e.candidate.skip_reason = "failed"
                  /\ e.candidate.previously_failed = failedRows[e.triple].status
                  /\ e.candidate.failure_detail = failedRows[e.triple].detail
            /\ (e.skipped /\ e.candidate.skip_reason = "failed") =>
                  /\ Count(calls, e.triple) = 0
                  /\ Count(attemptSteps, e.triple) = 0

\* a run met a key whose pair an earlier run had failed with a network
\* error: it passed the key over without a call
C25_Witness ==
    /\ pc \in {"loop", "batch"}
    /\ ~args.bypass_fail
    /\ lastEvent.kind = "skipped"
    /\ FailedBeforeRun(lastEvent.triple)
    /\ failedRows[lastEvent.triple].status = "NETWORK_ERROR"
    /\ failedRows[lastEvent.triple].detail = "REDIRECT"
    /\ \E e \in CachedCandidates :
          /\ e.triple = lastEvent.triple
          /\ e.candidate.skip_reason = "failed"
          /\ e.candidate.previously_failed = "NETWORK_ERROR"
    /\ Count(calls, lastEvent.triple) = 0

\* the candidates the plans of the run hold in skipped as expired
SkippedExpired ==
    {e \in CachedCandidates : e.skipped /\ e.candidate.skip_reason = "expired"}

\* the last step of the bulk loop met the candidate of the triple and
\* passed it over as skipped
MetSkipped(t) ==
    lastEvent.kind \in {"preclassified", "skipped"} /\ lastEvent.triple = t

\* C27 as stated: with bypass_fail false, whenever the bulk loop meets a
\* candidate the classifier skipped as expired, a failure row labeled EXPIRED
\* has been written for it in the run, exactly once.
C27_ExpiredAlwaysRecorded ==
    (pc \in {"loop", "batch"} /\ ~args.bypass_fail) =>
        \A e \in SkippedExpired :
            MetSkipped(e.triple) =>
                /\ e.triple \in DOMAIN failedRows
                /\ failedRows[e.triple].status = "EXPIRED"
                /\ Count(writes, e.triple) = 1

\* C27 amended: a candidate skipped as expired is flagged for recording
\* exactly when no failure outcome is persisted for it; when the bulk loop
\* meets a flagged one it writes a failure row labeled EXPIRED and clears the
\* flag, so the row is written once in the run however often the candidate
\* is met; for one that already had a failure outcome nothing is written.
C27_ExpiredRecordedOnce ==
    /\ []((pc \in {"loop", "batch"} /\ ~args.bypass_fail) =>
            \A e \in SkippedExpired :
                /\ e.candidate.should_record_preclassification
                      <=> e.triple \notin DOMAIN failedRows
                /\ e.candidate.should_record_preclassification
                      => Count(writes, e.triple) = 0
                /\ Count(writes, e.triple) <= 1
                /\ Count(calls, e.triple) = 0
                /\ Count(writes, e.triple) = 1 => failedRows[e.triple].status = "EXPIRED"
                /\ MetSkipped(e.triple) =>
                      /\ e.triple \in DOMAIN failedRows
                      /\ lastEvent.kind = "preclassified" =>
                            /\ Count(writes, e.triple) = 1
                            /\ failedRows[e.triple].status = "EXPIRED"
                            /\ failedRows[e.triple].detail
                                  = "Preclassified expiry from source metadata")
    /\ [][(pc = "loop" /\ lastEvent'.kind = "preclassified")
            => lastEvent'.triple \notin DOMAIN failedRows]_vars
    /\ [][(pc = "loop" /\ lastEvent'.kind = "skipped")
            => failedRows' = failedRows]_vars

\* the run recorded the expiry of a candidate when it first met it and has
\* now met the candidate again through another key: one row, flag cleared
C27_Witness ==
    /\ pc \in {"loop", "batch"}
    /\ ~args.bypass_fail
    /\ lastEvent.kind = "skipped"
    /\ \E e \in SkippedExpired :
          /\ e.triple = lastEvent.triple
          /\ ~e.candidate.should_record_preclassification
          /\ e.candidate.preclassified_status = "EXPIRED"
          /\ Count(writes, e.triple) = 1
          /\ failedRows[e.triple].status = "EXPIRED"

\* a later run meets the candidate whose expiry an earlier run recorded:
\* it is skipped as expired and nothing is written
C27_NotRecordedAgain ==
    /\ pc \in {"loop", "batch"}
    /\ ~args.bypass_fail
    /\ \E e \in SkippedExpired :
          /\ MetSkipped(e.triple)
          /\ Count(writes, e.triple) = 0
          /\ failedRows[e.triple].status = "EXPIRED"

\* C28: in a bulk run, a queued key whose code does not normalize ends the
\* planning for that code only: the run is not over, and the keys still
\* queued in the batch and the later batches are processed.
C28_InvalidCodeSkipped ==
    /\ [](lastEvent.kind = "invalid_code" => pc \in {"loop", "batch"})
    /\ [][(pc = "loop" /\ lastEvent'.kind = "invalid_code")
            => /\ pending_queue' = Tail(pending_queue)
               /\ batch' = batch
               /\ all_keys' = all_keys]_vars

\* the run met the key of a code that does not normalize before a key of
\* another code, and was over with that key never looked at
C28_RunAborted ==
    /\ lastEvent.kind = "invalid_code"
    /\ pc = "idle"
    /\ NormalizedCode[lastEvent.triple[1]] = NoneStr
    /\ \E i \in 1..Len(keysTable) :
          /\ NormalizedCode[keysTable[i].code] # NoneStr
          /\ \A t \in DOMAIN calls \cup DOMAIN writes : t[1] # keysTable[i].code
          /\ \A t \in DOMAIN redeemedRows \cup DOMAIN failedRows :
                t[1] # keysTable[i].code

\* the target the manual loop is at
ManualTarget == Triple(context.code, mtargets[1][1], mtargets[1][2])

\* C32: in the manual loop an exception of the callback other than SystemExit
\* becomes an UNKNOWN result of the target and the loop goes on with the next
\* target; SystemExit leaves the loop at once: no result, no store write, no
\* sleep and no second call.
C32_ExceptionBecomesUnknown ==
    [][(pc = "manual" /\ Len(mtargets) > 0) =>
          /\ lastEvent'.statuses = <<"RAISE">> =>
                /\ results' = Append(results, [game |-> mtargets[1][1],
                                               platform |-> mtargets[1][2],
                                               status |-> "UNKNOWN"])
                /\ last_status' = "UNKNOWN"
                /\ pc' = "manual"
                /\ mtargets' = Tail(mtargets)
          /\ lastEvent'.statuses = <<"EXIT">> =>
                /\ pc' # "manual"
                /\ results' = <<>>
                /\ mtargets' = <<>>
                /\ Count(calls', ManualTarget) = Count(calls, ManualTarget) + 1
                /\ UNCHANGED <<storevars, last_status, sleeps, writes>>]_vars

\* the callback raised at the first of two targets: its result is UNKNOWN and
\* the second target is still to be tried
C32_Witness ==
    /\ pc = "manual"
    /\ lastEvent.kind = "manual_attempt"
    /\ lastEvent.statuses = <<"RAISE">>
    /\ Len(results) = 1
    /\ results[1].status = "UNKNOWN"
    /\ Len(mtargets) > 0

\* the callback raised SystemExit at the second target, after a result of the
\* first: the loop is left, one call was made for the target
C32_ExitPropagated ==
    /\ pc = "idle"
    /\ lastEvent.kind = "manual_exit"
    /\ Cardinality(DOMAIN calls) = 2
    /\ Count(calls, lastEvent.triple) = 1
    /\ results = <<>>

\* the plan _load_plan gives for the code in the current state
PlanNow(code) ==
    IF code \in DOMAIN plan_cache THEN plan_cache[code]
    ELSE build_redemption_plan(code, ALL_SUPPORTED_PLATFORMS, args.bypass_fail,
             fetch_keys_for_code(keysTable, code), load_source_matches(feed, code),
             fetch_outcomes_for_code(redeemedRows, code),
             fetch_outcomes_for_code(failedRows, code), NowT)

\* C33: the bulk loop makes remote calls only for candidates the plan holds
\* in attempts, never for one in skipped (the plan is the cached one, the one
\* the step has cached, or the one built in a step that ends the run); and
\* while a plan is cached its
\* candidates, attempts and skipped lists keep their (game, platform) pairs
\* in place: only fields of candidates change.
C33_PartitionFixed ==
    /\ [][(pc = "loop" /\ calls' # calls) =>
            LET code == lastEvent'.triple[1]
                plan == IF code \in DOMAIN plan_cache THEN plan_cache[code]
                        ELSE IF code \in DOMAIN plan_cache' THEN plan_cache'[code]
                        ELSE PlanNow(code)
                pair == <<lastEvent'.triple[2], lastEvent'.triple[3]>>
            IN  /\ InList(plan.attempts, pair)
                /\ ~InList(plan.skipped, pair)]_vars
    /\ [][\A code \in DOMAIN plan_cache :
            \/ plan_cache' = <<>>
            \/ /\ code \in DOMAIN plan_cache'
               /\ \/ plan_cache'[code] = plan_cache[code]
                  \/ /\ PairsOf(plan_cache'[code].candidates)
                            = PairsOf(plan_cache[code].candidates)
                     /\ PairsOf(plan_cache'[code].attempts)
                            = PairsOf(plan_cache[code].attempts)
                     /\ PairsOf(plan_cache'[code].skipped)
                            = PairsOf(plan_cache[code].skipped)]_vars

\* a cached plan with a skipped candidate and an attempt whose success was
\* written into the candidate: the candidate is still in attempts
C33_Witness ==
    /\ pc \in {"loop", "batch"}
    /\ lastEvent.kind = "attempt"
    /\ \E code \in DOMAIN plan_cache :
          /\ Len(plan_cache[code].skipped) > 0
          /\ \E i \in 1..Len(plan_cache[code].attempts) :
                /\ plan_cache[code].attempts[i].previously_redeemed
                /\ Triple(code, plan_cache[code].attempts[i].game,
                          plan_cache[code].attempts[i].platform) = lastEvent.triple

\* in the trace a sleep lies between every SLOWDOWN answer and the call after it
CooledDown(trace) ==
    \A i, j \in 1..Len(trace) :
        (i < j /\ trace[i] = "SLOWDOWN" /\ trace[j] # "sleep") =>
            \E k \in (i + 1)..(j - 1) : trace[k] = "sleep"

\* the trace ends after a SLOWDOWN answer with no sleep since
CooldownDue(trace) ==
    \E i \in 1..Len(trace) :
        /\ trace[i] = "SLOWDOWN"
        /\ \A k \in (i + 1)..Len(trace) : trace[k] # "sleep"

\* C34: in the bulk loop and in the manual loop a cooldown is slept between a
\* SLOWDOWN answer and the next remote call of the run: within one iteration
\* a sleep lies between the answer and the following call, and an iteration
\* that ends on a SLOWDOWN answer not yet slept on ends the run.
C34_CooldownAfterSlowdown ==
    /\ CooledDown(lastEvent.trace)
    /\ CooldownDue(lastEvent.trace) => pc \notin {"loop", "batch", "manual"}

\* a bulk attempt answered SLOWDOWN, then SUCCESS after the cooldown, and the
\* run goes on
C34_Witness ==
    /\ pc \in {"loop", "batch"}
    /\ lastEvent.kind = "attempt"
    /\ lastEvent.statuses = <<"SLOWDOWN", "SUCCESS">>
    /\ lastEvent.trace = <<"SLOWDOWN", "sleep", "SUCCESS">>

\* the manual loop slept after a SLOWDOWN answer and goes on to the next target
C34_ManualCooldown ==
    /\ pc = "manual"
    /\ Len(mtargets) > 0
    /\ lastEvent.trace = <<"SLOWDOWN", "sleep">>

\* SLOWDOWN twice: the run is over with the second answer not slept on
C34_RunEndsDue ==
    /\ pc = "idle"
    /\ lastEvent.trace = <<"SLOWDOWN", "sleep", "SLOWDOWN">>

\* C35: the bulk loop never ends an attempt with the status SLOWDOWN: after
\* one SLOWDOWN the retry's answer is the final status, a second SLOWDOWN
\* becomes TRYLATER; so the loop writes no failure row labelled RATELIMIT, and
\* once a run has attempted a candidate client.last_status is not SLOWDOWN
\* when the loop comes to the next key.
C35_NeverEndsOnSlowdown ==
    /\ lastEvent.kind = "attempt" =>
          /\ lastEvent.status # "SLOWDOWN"
          /\ last_status = lastEvent.status
          /\ lastEvent.statuses[1] = "SLOWDOWN" =>
                /\ Len(lastEvent.statuses) = 2
                /\ lastEvent.status = IF lastEvent.statuses[2] = "SLOWDOWN" THEN "TRYLATER"
                                      ELSE lastEvent.statuses[2]
    /\ \A t \in DOMAIN failedRows : failedRows[t].status # "RATELIMIT"
    /\ (pc \in {"loop", "batch"} /\ attemptSteps # <<>>) => last_status # "SLOWDOWN"

\* an attempt answered SLOWDOWN and then INVALID: the failure row is INVALID
\* and the loop goes on to the next key with that status
C35_Witness ==
    /\ pc = "loop"
    /\ lastEvent.kind = "attempt"
    /\ lastEvent.statuses = <<"SLOWDOWN", "INVALID">>
    /\ failedRows[lastEvent.triple].status = "INVALID"
    /\ last_status = "INVALID"

\* SLOWDOWN twice: the row written is TRYLATER
C35_Downgraded ==
    /\ lastEvent.kind = "attempt"
    /\ lastEvent.statuses = <<"SLOWDOWN", "SLOWDOWN">>
    /\ failedRows[lastEvent.triple].status = "TRYLATER"
    /\ last_status = "TRYLATER"

\* games x platforms, the games in order and for each game the platforms in
\* order
RECURSIVE GameMajor(_, _)
GameMajor(games, platforms) ==
    IF Len(games) = 0 THEN <<>>
    ELSE [i \in 1..Len(platforms) |-> <<games[1], platforms[i]>>]
         \o GameMajor(Tail(games), platforms)

\* the calls the manual run has made
ManualCalls ==
    {t \in DOMAIN calls : calls[t] > 0}

\* C40: in the manual loop the callback is invoked exactly once for every
\* attempted target and never again, the results are a prefix of the
\* game-major, platform-minor enumeration of (games to probe) x (platforms
\* to probe) with one result per attempted target, and a TRYLATER status
\* can only be the last result.
C40_ManualResultsInOrder ==
    pc = "manual" =>
        LET expected == GameMajor(context.games_to_probe, context.platforms_to_probe)
        IN  /\ Len(results) <= Len(expected)
            /\ \A i \in 1..Len(results) :
                  /\ <<results[i].game, results[i].platform>> = expected[i]
                  /\ Count(calls, Triple(context.code, expected[i][1], expected[i][2])) = 1
            /\ ManualCalls = {Triple(context.code, expected[i][1], expected[i][2]) :
                                i \in 1..Len(results)}
            /\ \A i \in 1..(Len(results) - 1) : results[i].status # "TRYLATER"
            /\ mtargets # <<>> => mtargets = SubSeq(expected, Len(results) + 1, Len(expected))

\* a manual run over two games and two platforms went past the first game,
\* with a failure among its results, and stopped on TRYLATER
C40_Witness ==
    /\ pc = "manual"
    /\ Len(context.games_to_probe) = 2
    /\ Len(context.platforms_to_probe) = 2
    /\ Len(results) = 3
    /\ results[1].status = "UNKNOWN"
    /\ results[2].status = "SLOWDOWN"
    /\ results[3].status = "TRYLATER"
    /\ mtargets = <<>>

-----------------------------------------------------------------------------
(* Claims about the limit of a batch (checked under SpecLimit)             *)

\* C36: under a positive --limit, at every point of a batch the attempts made
\* plus the keys pending are at most the limit, and the pending queue is the
\* stretch of the base queue that ends at overflow_index: no key of the base
\* queue is enqueued twice.
C36_LimitBoundsBatch ==
    (pc \in {"loop", "batch"} /\ args.limit > 0) =>
        /\ attempted_count + Len(pending_queue) <= args.limit
        /\ overflow_index <= Len(base_queue)
        /\ Len(pending_queue) <= overflow_index
        /\ pending_queue = SubSeq(base_queue, overflow_index - Len(pending_queue) + 1,
                                  overflow_index)

\* the limit is 2 and the base queue has four keys: one attempt was made, a
\* skipped key was replaced from the overflow, and the limit is reached with
\* one key pending
C36_Witness ==
    /\ pc = "loop"
    /\ args.limit = 2
    /\ Len(base_queue) = 4
    /\ attempted_count = 1
    /\ overflow_index = 3
    /\ Len(pending_queue) = 1
    /\ lastEvent.kind \in {"skipped", "preclassified"}

-----------------------------------------------------------------------------
(* Termination of the bulk loop (checked under SpecLive)                   *)

\* the keys the batch still has to dequeue: those pending and those the
\* overflow can still supply
KeysLeft == Len(pending_queue) + (Len(base_queue) - overflow_index)

\* C37: a bulk run that has started comes to the end of main(): an attempt
\* makes one or two remote calls, every iteration of "while pending_queue"
\* that stays in the loop leaves fewer keys to dequeue, and the run ends.
C37_BulkLoopTerminates ==
    /\ (pc \in {"batch", "loop"}) ~> (pc = "idle")
    /\ [](lastEvent.kind \in {"attempt", "raised"} => Len(lastEvent.statuses) \in {1, 2})
    /\ [][(pc = "loop" /\ pc' = "loop") => KeysLeft' < KeysLeft]_vars

\* a run ended by itself after an iteration that refilled the queue from the
\* overflow and one that retried a call
C37_Witness ==
    /\ pc = "idle"
    /\ lastEvent.kind = "end_bulk"
    /\ args.limit = 1
    /\ writes # <<>>
    /\ \E t \in DOMAIN calls : calls[t] = 2
    /\ Cardinality(DOMAIN writes) = 2

-----------------------------------------------------------------------------
(* Claims about the feed cache (checked under SpecFeed)                    *)

\* C31: over the build_redemption_plan calls of a process the feed parser is
\* invoked at most once, also when its first invocation failed or returned
\* no records.
C31_FeedParsedOnce == fParses <= 1

\* the first invocation raised, and the next call for a valid code invoked
\* the parser again
C31_ParsedAgainAfterFailure ==
    /\ fCalls = 2
    /\ fRaises = 1
    /\ fParses = 2
    /\ dataset.cached

\* the parser is invoked once more than it has raised, at most: a result it
\* returned, also None or no records, is kept for the rest of the process
C31_ParsedOncePerResult ==
    /\ [](fParses <= fRaises + 1 /\ (dataset.cached <=> fParses = fRaises + 1))
    /\ [][dataset.cached => (dataset' = dataset /\ fParses' = fParses)]_vars

\* the feed returned None at the first call; two more calls were served from
\* the cache
C31_NoneCached ==
    /\ fCalls = MaxPlanCalls
    /\ fParses = 1
    /\ fRaises = 0
    /\ dataset = [cached |-> TRUE, value |-> <<>>]
    /\ fFeed # <<>>

-----------------------------------------------------------------------------
(* Specifications                                                          *)

InitNorm == NormInit /\ SkipIdle /\ UpsertIdle /\ PlanIdle /\ FeedIdle /\ RunIdle

SpecNorm == InitNorm /\ [][NormNext]_vars

InitSkip == SkipInit /\ NormIdle /\ UpsertIdle /\ PlanIdle /\ FeedIdle /\ RunIdle

SpecSkip == InitSkip /\ [][SkipNext]_vars

InitUpsert == UpsertInit /\ NormIdle /\ SkipIdle /\ PlanIdle /\ FeedIdle /\ RunIdle

SpecUpsert == InitUpsert /\ [][UpsertNext]_vars

InitPlan == PlanInit /\ NormIdle /\ SkipIdle /\ UpsertIdle /\ FeedIdle /\ RunIdle

SpecPlan == InitPlan /\ [][PlanNext]_vars

InitFeed == FeedInit /\ NormIdle /\ SkipIdle /\ UpsertIdle /\ PlanIdle /\ RunIdle

SpecFeed == InitFeed /\ [][FeedNext]_vars

Init == RunInit /\ NormIdle /\ SkipIdle /\ UpsertIdle /\ PlanIdle /\ FeedIdle

InitThrottle == ThrottleInit /\ NormIdle /\ SkipIdle /\ UpsertIdle /\ PlanIdle /\ FeedIdle

SpecThrottle == InitThrottle /\ [][Next]_vars

InitStatus == StatusInit /\ NormIdle /\ SkipIdle /\ UpsertIdle /\ PlanIdle /\ FeedIdle

SpecStatus == InitStatus /\ [][Next]_vars

InitProbe == ProbeInit /\ NormIdle /\ SkipIdle /\ UpsertIdle /\ PlanIdle /\ FeedIdle

SpecProbe == InitProbe /\ [][Next]_vars

InitLimit == LimitInit /\ NormIdle /\ SkipIdle /\ UpsertIdle /\ PlanIdle /\ FeedIdle

SpecLimit == InitLimit /\ [][Next]_vars

InitLive == LiveInit /\ NormIdle /\ SkipIdle /\ UpsertIdle /\ PlanIdle /\ FeedIdle

\* main() is sequential code: a run that can take its next step takes it
\* (each remote call returns or raises)
BatchStep ==
    (BeginBatch \/ EndBulk) /\ UNCHANGED <<nvars, svars, uvars, bvars, fvars>>

LoopStep == ProcessKey /\ UNCHANGED <<nvars, svars, uvars, bvars, fvars>>

\* WF_vars(LoopStep) written out: LoopStep is enabled exactly when pc = "loop"
LoopFair == []<>(pc # "loop") \/ []<><<LoopStep>>_vars

SpecLive == InitLive /\ [][Next]_vars /\ WF_vars(BatchStep) /\ LoopFair

Spec == Init /\ [][Next]_vars

=============================================================================
